---- MODULE Spec2Model ----
(***************************************************************************)
(* Outreach bot: the quality-gated generation pipeline.                    *)
(*                                                                         *)
(*   EmailGenerator.generate_email   (generator/email_generator.py)        *)
(*   AIOpener.generate_opener        (generator/ai_opener.py)              *)
(*   TemplateManager                 (generator/templates.py)              *)
(*   ContextAnalyzer.get_context     (analyzer/context_analyzer.py)        *)
(*   BlogFinder                      (scraper/blog_finder.py)              *)
(*   SQLiteCache                     (cache/sqlite_cache.py)               *)
(*   _run_async                      (cli.py)                              *)
(*                                                                         *)
(* Python's None is the empty sequence, a present value v is <<v>>.        *)
(* Texts produced by the language model are short strings; the summary of  *)
(* a context is a sequence of characters, so that len() is Len.            *)
(***************************************************************************)
EXTENDS Integers, Sequences, FiniteSets, TLC

VARIABLES
    pc,                 \* position of the control flow
    contact,            \* the Contact being processed
    context,            \* the ScrapedContext handed to generate_email
    cfg,                \* EmailGenerator.__init__ arguments
    prompt_variation,   \* generate_email's prompt_variation argument
    oracle,             \* what the remote model answers, per attempt
    attempt,            \* loop variable of the retry loop (0-based)
    cached_attempts,    \* the ledger of evaluated attempts
    previous_opener,    \* text carried to the next attempt
    feedback,           \* feedback carried to the next attempt
    opener,             \* the chosen opener
    subject,            \* the chosen subject
    body,               \* the chosen body
    evaluation_result,  \* the chosen evaluation
    used_ai,            \* whether the chosen opener is generated
    email,              \* the GeneratedEmail returned, None before
    raised,             \* the exception that left generate_email, None if none
    genLog,             \* calls of ai_opener.generate_opener, in order
    evalLog,            \* calls of evaluator.evaluate, in order
    cache,              \* scraped_contexts table: domain -> record
    web,                \* what the remote site answers
    fetchLog,           \* calls of fetcher.fetch, in order
    results_summary,    \* cli counters
    saved,              \* generated_emails table (append only)
    now,                \* the clock (datetime.utcnow), in days
    progress,           \* processing_progress table: fingerprint -> record
    run,                \* locals of one cli run: options, loop index, history
    calls,              \* get_context calls made so far, with what they returned
    arg,                \* argument of the function under study
    ret,                \* what the last call under study returned
    fetcher,            \* the Fetcher: _client, _last_domain_access
    tasks               \* the fetch call of each task: its locals and position

vars == <<pc, contact, context, cfg, prompt_variation, oracle, attempt,
          cached_attempts, previous_opener, feedback, opener, subject, body,
          evaluation_result, used_ai, email, raised, genLog, evalLog,
          cache, web, fetchLog, results_summary, saved, now, progress, run,
          calls, arg, ret, fetcher, tasks>>

genLocals == <<attempt, cached_attempts, previous_opener, feedback, opener,
               subject, body, evaluation_result, used_ai>>

studyVars == <<calls, arg, ret, fetcher, tasks>>

pipeVars == <<cache, web, fetchLog, results_summary, saved, now, progress, run,
              studyVars>>

None == << >>

Some(v) == <<v>>

Max(a, b) == IF a >= b THEN a ELSE b

(***************************************************************************)
(* Bounds of the model.                                                    *)
(***************************************************************************)
MaxRetriesBound == 2

\* lengths of the summaries handed to generate_email: around the limit of 50
SummaryLens == {0, 50, 51}

\* answers of the generation model: two texts, an empty text, an API error
ModelResponses == {"A", "B", "", "EXC"}

\* findings of one evaluation: <<ai_indicators, style violations, issues>>
\* giving the scores 85, 70, 55 and 40
FindingCounts == {<<0, 5, 0>>, <<5, 0, 0>>, <<5, 3, 2>>, <<8, 2, 2>>}

Thresholds == {70}

(***************************************************************************)
(* models/contact.py, models/context.py                                    *)
(***************************************************************************)
\* the fields of the Contact dataclass
ContactFields ==
    {"email", "first_name", "last_name", "company", "website", "title", "row_index"}

\* a Contact as Contact.from_dict builds it from a CSV row
TheContact ==
    [email |-> "ann@acme.com", first_name |-> "Ann", last_name |-> "Lee",
     company |-> "Acme", website |-> "https://www.acme.com/", title |-> None,
     row_index |-> 0]

\* Contact.domain of TheContact
TheDomain == "acme.com"

\* attribute access obj.name: present only for a field of the object
HasAttr(obj, name) == name \in DOMAIN obj

\* Contact.full_name
full_name(c) == <<c.first_name, " ", c.last_name>>

Qualities == {"good", "low_quality", "error"}

MinUsableSummary == 50

Chars(n) == [i \in 1..n |-> "x"]

\* ScrapedContext.has_usable_content
has_usable_content(c) == c.quality = "good" /\ Len(c.summary) > MinUsableSummary

(***************************************************************************)
(* generator/prompts/variations.py                                         *)
(***************************************************************************)
PROMPT_VARIATIONS ==
    <<"direct_reference", "problem_focused", "compliment_insight",
      "question_based", "shared_interest", "trend_connection",
      "specific_quote", "future_focused", "contrarian", "minimalist">>

get_all_variation_keys == PROMPT_VARIATIONS

VariationKeySet == {PROMPT_VARIATIONS[i] : i \in 1..Len(PROMPT_VARIATIONS)}

\* the default of generate_email's prompt_variation parameter
DefaultVariation == "direct_reference"

(***************************************************************************)
(* generator/templates.py                                                  *)
(***************************************************************************)
\* get_fallback_opener: FALLBACK_OPENERS[0] formatted with the company
get_fallback_opener(c) == "I came across " \o c.company

\* get_subject: SUBJECT_TEMPLATES[0] formatted with the company
get_subject(c) == "AI opportunities for " \o c.company

\* get_closing reads contact.sender_name and contact.sender_company; reading
\* an attribute the object does not have raises AttributeError
get_closing(c) ==
    IF ~HasAttr(c, "sender_name") \/ ~HasAttr(c, "sender_company")
    THEN [raises |-> Some("AttributeError"), text |-> ""]
    ELSE [raises |-> None, text |-> "Best, sender"]

\* assemble_email: the subject, and the body as its lines (joined by "\n")
assemble_email(c, op) ==
    LET closing == get_closing(c) IN
    IF closing.raises # None
    THEN [raises |-> closing.raises, subject |-> "", body |-> << >>]
    ELSE [raises |-> None,
          subject |-> get_subject(c),
          body |-> <<"Hi " \o c.first_name \o ",", "", op, "", "VALUE_PROPS",
                     "", closing.text>>]

(***************************************************************************)
(* generator/ai_opener.py                                                  *)
(***************************************************************************)
\* the parameters of AIOpener.generate_opener, after self
GenerateOpenerParams == <<"contact", "context", "variation_key">>

\* Python's binding of a call with npos positional and the keyword arguments
\* kws to the parameters: a keyword that names no parameter is a TypeError
Binds(params, npos, kws) ==
    /\ npos <= Len(params)
    /\ \A k \in kws :
         \E i \in 1..Len(params) : params[i] = k /\ i > npos

\* the body of generate_opener: (opener, error)
generate_opener(ctx, variation_key, response) ==
    IF ~has_usable_content(ctx)
    THEN [opener |-> "", error |-> Some("Context not usable for AI generation")]
    ELSE IF variation_key \notin VariationKeySet \/ response = "EXC"
    THEN [opener |-> "", error |-> Some("Generation error")]
    ELSE [opener |-> response, error |-> None]

(***************************************************************************)
(* evaluator/email_evaluator.py                                            *)
(***************************************************************************)
\* the scoring of EmailEvaluator.evaluate over the merged finding lists
quality_score(f) == Max(0, 100 - ((f[1] * 2 + f[2] * 1 + f[3] * 1) * 3))

evaluate(f, threshold) ==
    [is_acceptable |-> quality_score(f) >= threshold,
     quality_score |-> quality_score(f),
     findings |-> f]

\* EvaluationResult.get_feedback_text: the findings, then score and threshold
get_feedback_text(ev, threshold) ==
    [findings |-> ev.findings, score |-> ev.quality_score, needs |-> threshold]

(***************************************************************************)
(* generator/email_generator.py: EmailGenerator.generate_email             *)
(***************************************************************************)
\* the keyword arguments of the generate_opener call of the retry loop,
\* after the three positional ones (contact, context, prompt_variation)
CallPositional == 3

CallKeywords == {"feedback", "previous_opener"}

\* max(cached_attempts, key=score): the first entry with the greatest score
BestAttempt(ledger) ==
    LET best == CHOOSE i \in 1..Len(ledger) :
                  /\ \A j \in 1..Len(ledger) : ledger[j].score <= ledger[i].score
                  /\ \A j \in 1..(i - 1) : ledger[j].score < ledger[i].score
    IN ledger[best]

\* the locals of generate_email as the function is entered
InitLocals ==
    /\ attempt = 0
    /\ cached_attempts = << >>
    /\ previous_opener = None
    /\ feedback = None
    /\ opener = ""
    /\ subject = ""
    /\ body = << >>
    /\ evaluation_result = None
    /\ used_ai = FALSE
    /\ email = None
    /\ raised = None
    /\ genLog = << >>
    /\ evalLog = << >>

\* an exception leaves generate_email
Raise(type, at) ==
    /\ raised' = Some([type |-> type, at |-> at])
    /\ pc' = "RAISED"

\* the entry condition of the retry loop
Enter ==
    /\ pc = "START"
    /\ pc' = IF context.quality = "good" /\ has_usable_content(context)
             THEN "LOOP" ELSE "FINISH"
    /\ UNCHANGED <<contact, context, cfg, prompt_variation, oracle, genLocals,
                   email, raised, genLog, evalLog, pipeVars>>

\* one iteration of `for attempt in range(self.max_retries + 1)`
Attempt ==
    /\ pc = "LOOP"
    /\ attempt <= cfg.max_retries
    /\ LET bound == Binds(GenerateOpenerParams, CallPositional, CallKeywords)
           call == [variation_key |-> prompt_variation, feedback |-> feedback,
                    previous_opener |-> previous_opener, bound |-> bound]
           out == generate_opener(context, prompt_variation, oracle.gen[attempt + 1])
           asm == assemble_email(contact, out.opener)
           ev == evaluate(oracle.eval[attempt + 1], cfg.quality_threshold)
           entry == [opener |-> out.opener, subject |-> asm.subject,
                     body |-> asm.body, evaluation |-> ev,
                     score |-> ev.quality_score, attempt_number |-> attempt + 1]
       IN
       /\ genLog' = Append(genLog, call)
       /\ IF ~bound
          THEN \* the call does not match the signature of generate_opener
               /\ Raise("TypeError", "generate_opener")
               /\ UNCHANGED <<genLocals, evalLog>>
          ELSE IF out.opener = "" \/ out.error # None
          THEN \* generation failed: break
               /\ pc' = "FINISH"
               /\ UNCHANGED <<genLocals, evalLog, raised>>
          ELSE IF asm.raises # None
          THEN /\ Raise(asm.raises[1], "assemble_email")
               /\ UNCHANGED <<genLocals, evalLog>>
          ELSE IF cfg.enable_evaluation
          THEN /\ evalLog' = Append(evalLog, [body |-> asm.body, subject |-> asm.subject])
               /\ cached_attempts' = Append(cached_attempts, entry)
               /\ UNCHANGED raised
               /\ IF ev.is_acceptable
                  THEN \* accepted: use this attempt, break
                       /\ opener' = out.opener
                       /\ subject' = asm.subject
                       /\ body' = asm.body
                       /\ evaluation_result' = Some(ev)
                       /\ used_ai' = TRUE
                       /\ pc' = "FINISH"
                       /\ UNCHANGED <<attempt, previous_opener, feedback>>
                  ELSE IF attempt < cfg.max_retries
                  THEN \* retry: carry the text and its feedback, continue
                       /\ previous_opener' = Some(out.opener)
                       /\ feedback' = Some(get_feedback_text(ev, cfg.quality_threshold))
                       /\ attempt' = attempt + 1
                       /\ pc' = "LOOP"
                       /\ UNCHANGED <<opener, subject, body, evaluation_result, used_ai>>
                  ELSE \* max retries reached: best cached attempt, break
                       LET best == BestAttempt(cached_attempts') IN
                       /\ opener' = best.opener
                       /\ subject' = best.subject
                       /\ body' = best.body
                       /\ evaluation_result' = Some(best.evaluation)
                       /\ used_ai' = TRUE
                       /\ pc' = "FINISH"
                       /\ UNCHANGED <<attempt, previous_opener, feedback>>
          ELSE \* no evaluation: accept the opener, break
               /\ opener' = out.opener
               /\ subject' = asm.subject
               /\ body' = asm.body
               /\ used_ai' = TRUE
               /\ pc' = "FINISH"
               /\ UNCHANGED <<attempt, cached_attempts, previous_opener, feedback,
                              evaluation_result, evalLog, raised>>
    /\ UNCHANGED <<contact, context, cfg, prompt_variation, oracle, email, pipeVars>>

\* GeneratedEmail(...) and the attached evaluation
BuildEmail(op, subj, bd, ev) ==
    [to_email |-> contact.email, to_name |-> full_name(contact),
     company |-> contact.company, subject |-> subj, body |-> bd, opener |-> op,
     used_ai_opener |-> used_ai,
     prompt_variation |-> IF used_ai THEN Some(prompt_variation) ELSE None,
     evaluation |-> ev]

\* GeneratedEmail.is_flagged
is_flagged(e) == ~e.used_ai_opener

\* after the loop: the template fallback when there is no opener, then the
\* construction of the GeneratedEmail and the return
Finish ==
    /\ pc = "FINISH"
    /\ IF opener = ""
       THEN LET fb == get_fallback_opener(contact)
                asm == assemble_email(contact, fb)
            IN IF asm.raises # None
               THEN /\ Raise(asm.raises[1], "assemble_email")
                    /\ UNCHANGED <<opener, subject, body, email>>
               ELSE /\ opener' = fb
                    /\ subject' = asm.subject
                    /\ body' = asm.body
                    /\ email' = Some(BuildEmail(fb, asm.subject, asm.body, evaluation_result))
                    /\ pc' = "DONE"
                    /\ UNCHANGED raised
       ELSE /\ email' = Some(BuildEmail(opener, subject, body, evaluation_result))
            /\ pc' = "DONE"
            /\ UNCHANGED <<opener, subject, body, raised>>
    /\ UNCHANGED <<contact, context, cfg, prompt_variation, oracle, attempt,
                   cached_attempts, previous_opener, feedback, evaluation_result,
                   used_ai, genLog, evalLog, pipeVars>>

(***************************************************************************)
(* generate_email called on any context, with any configuration and any    *)
(* behaviour of the remote model.                                          *)
(***************************************************************************)
Contexts ==
    {[domain |-> TheDomain, quality |-> q, blog_url |-> None, articles |-> << >>,
      summary |-> Chars(n), error_message |-> None, scraped_at |-> 0] :
        q \in Qualities, n \in SummaryLens}

Configs ==
    [max_retries : 0..MaxRetriesBound, enable_evaluation : BOOLEAN,
     quality_threshold : Thresholds]

\* the answers of the generation model and the findings of the evaluator for
\* the attempts 1 .. n
Oracles(n) == [gen : [1..n -> ModelResponses], eval : [1..n -> FindingCounts]]

NoFetcher ==
    /\ fetcher = << >>
    /\ tasks = << >>

NoStudy ==
    /\ calls = << >>
    /\ arg = None
    /\ ret = None
    /\ NoFetcher

NoPipeline ==
    /\ cache = << >>
    /\ web = << >>
    /\ fetchLog = << >>
    /\ results_summary = [success |-> 0, flagged |-> 0, errors |-> 0]
    /\ saved = << >>
    /\ now = 0
    /\ progress = << >>
    /\ run = << >>
    /\ NoStudy

Init ==
    /\ pc = "START"
    /\ contact = TheContact
    /\ context \in Contexts
    /\ cfg \in Configs
    /\ prompt_variation \in {DefaultVariation, "minimalist"}
    /\ oracle \in Oracles(cfg.max_retries + 1)
    /\ InitLocals
    /\ NoPipeline

Next ==
    \/ Enter
    \/ Attempt
    \/ Finish

Spec == Init /\ [][Next]_vars

(***************************************************************************)
(* scraper/blog_finder.py, over a remote site that answers as `web` says.  *)
(* A page is "fail" (fetch returned no html), "nolinks" (fetched, no       *)
(* article link extracted) or "links" (fetched, at least one link); hub is *)
(* the answer to the second fetch of the hub page, by scrape_articles.     *)
(***************************************************************************)
BLOG_PATHS ==
    <<"/blog", "/blog/", "/news", "/news/", "/insights", "/insights/",
      "/resources", "/resources/", "/articles", "/articles/", "/posts",
      "/posts/", "/updates", "/updates/">>

Url(kind, n) == [kind |-> kind, n |-> n]

\* one call of fetcher.fetch(url), issued by the named method
Fetch(url, by) == [url |-> url, by |-> by]

\* a search that goes through the whole list and keeps the last path that
\* is fetched and yields a link
RECURSIVE fallback_blog_search_last(_, _)
fallback_blog_search_last(w, i) ==
    IF i > Len(BLOG_PATHS)
    THEN [url |-> None, fetched |-> << >>]
    ELSE LET rest == fallback_blog_search_last(w, i + 1)
         IN [url |-> IF rest.url = None /\ w.paths[i] = "links"
                     THEN Some(Url("path", i)) ELSE rest.url,
             fetched |-> <<Fetch(Url("path", i), "find_blog")>> \o rest.fetched]

\* _fallback_blog_search from path i on: the first path that is fetched and
\* yields a link under the strict matching of parse_blog_page, and the
\* fetches issued.  A page is "fail" (the fetch gives no content), "nolinks",
\* "lenient" (links under the flexible matching only) or "links".
RECURSIVE fallback_blog_search(_, _)
fallback_blog_search(w, i) ==
    IF i > Len(BLOG_PATHS)
    THEN [url |-> None, fetched |-> << >>]
    ELSE IF w.paths[i] = "links"
    THEN [url |-> Some(Url("path", i)),
          fetched |-> <<Fetch(Url("path", i), "find_blog")>>]
    ELSE LET rest == fallback_blog_search(w, i + 1)
         IN [url |-> rest.url,
             fetched |-> <<Fetch(Url("path", i), "find_blog")>> \o rest.fetched]

\* a find_blog that returns the picked link without looking at its page
find_blog_unverified(w) ==
    LET fb == fallback_blog_search(w, 1)
        home == <<Fetch(Url("home", 0), "find_blog")>>
        verify == <<Fetch(Url("pick", 0), "find_blog")>>
    IN IF w.home = "fail" \/ w.home = "nonav" \/ w.pick = "none"
       THEN [url |-> fb.url, fetched |-> home \o fb.fetched]
       ELSE [url |-> Some(Url("pick", 0)), fetched |-> home \o verify]

\* find_blog: homepage, navigation links, the picked link and its
\* verification (flexible matching), else the static paths
find_blog(w) ==
    LET fb == fallback_blog_search(w, 1)
        home == <<Fetch(Url("home", 0), "find_blog")>>
        verify == <<Fetch(Url("pick", 0), "find_blog")>>
    IN IF w.home = "fail" \/ w.home = "nonav"
       THEN [url |-> fb.url, fetched |-> home \o fb.fetched]
       ELSE IF w.pick = "none"
       THEN [url |-> fb.url, fetched |-> home \o fb.fetched]
       ELSE IF w.pick \in {"links", "lenient"}
       THEN [url |-> Some(Url("pick", 0)), fetched |-> home \o verify]
       ELSE [url |-> fb.url, fetched |-> home \o verify \o fb.fetched]

\* a text of n words
Words(n) == Chars(IF n = 0 THEN 0 ELSE 2 * n - 1)

\* parse_article of the k-th linked page
parse_article(w, k) ==
    [title |-> Chars(8), url |-> Url("article", k),
     content |-> Words(w.articles[k]), word_count |-> w.articles[k]]

\* an article loop that ends at the first article that gives nothing
RECURSIVE scrape_links_stop(_, _, _)
scrape_links_stop(w, k, n) ==
    IF k > n
    THEN [articles |-> << >>, fetched |-> << >>]
    ELSE IF w.articles[k] = 0
    THEN [articles |-> << >>,
          fetched |-> <<Fetch(Url("article", k), "scrape_articles")>>]
    ELSE LET rest == scrape_links_stop(w, k + 1, n)
         IN [articles |-> <<[title |-> Chars(8), url |-> Url("article", k),
                             content |-> Words(w.articles[k]),
                             word_count |-> w.articles[k]]>> \o rest.articles,
             fetched |-> <<Fetch(Url("article", k), "scrape_articles")>>
                             \o rest.fetched]

\* the article loop of scrape_articles over the first n links, from link k
RECURSIVE scrape_links(_, _, _)
scrape_links(w, k, n) ==
    IF k > n
    THEN [articles |-> << >>, fetched |-> << >>]
    ELSE LET rest == scrape_links(w, k + 1, n)
             keep == w.articles[k] > 0
         IN [articles |-> (IF keep THEN <<parse_article(w, k)>> ELSE << >>)
                             \o rest.articles,
             fetched |-> <<Fetch(Url("article", k), "scrape_articles")>>
                             \o rest.fetched]

\* scrape_articles(blog_url, max_articles)
scrape_articles(w, blog_url, max_articles) ==
    IF w.hub = "fail"
    THEN [articles |-> << >>, fetched |-> <<Fetch(blog_url, "scrape_articles")>>]
    ELSE LET n == IF Len(w.articles) < max_articles
                  THEN Len(w.articles) ELSE max_articles
             r == scrape_links(w, 1, n)
         IN [articles |-> r.articles,
             fetched |-> <<Fetch(blog_url, "scrape_articles")>> \o r.fetched]

(***************************************************************************)
(* analyzer/context_analyzer.py                                            *)
(***************************************************************************)
MinArticleWords == 100

MaxArticleContentChars == 2000

ContentPrefixChars == 500

MaxArticles == 3

Take(s, n) == SubSeq(s, 1, IF Len(s) < n THEN Len(s) ELSE n)

\* an assessment that asks for more than the minimum
assess_quality_strict(articles) ==
    IF \E i \in 1..Len(articles) : articles[i].word_count > MinArticleWords
    THEN "good" ELSE "low_quality"

\* _assess_quality
assess_quality(articles) ==
    IF \E i \in 1..Len(articles) : articles[i].word_count >= MinArticleWords
    THEN "good" ELSE "low_quality"

\* "\n\n---\n\n".join(parts)
RECURSIVE JoinParts(_)
JoinParts(parts) ==
    IF parts = << >> THEN << >>
    ELSE IF Len(parts) = 1 THEN parts[1]
    ELSE parts[1] \o <<"\n", "\n", "-", "-", "-", "\n", "\n">> \o JoinParts(Tail(parts))

\* a summary cut so that the marker fits into the budget
build_summary_within(articles) ==
    LET part(a) == <<"T", "i", "t", "l", "e", ":", " ">> \o a.title \o <<"\n">>
                      \o Take(a.content, ContentPrefixChars)
        summary == JoinParts([i \in 1..Len(articles) |-> part(articles[i])])
    IN IF Len(summary) > MaxArticleContentChars
       THEN Take(summary, MaxArticleContentChars - 3) \o <<".", ".", ".">>
       ELSE summary

\* _build_summary
build_summary(articles) ==
    LET part(a) == <<"T", "i", "t", "l", "e", ":", " ">> \o a.title \o <<"\n">>
                      \o Take(a.content, ContentPrefixChars)
        summary == JoinParts([i \in 1..Len(articles) |-> part(articles[i])])
    IN IF Len(summary) > MaxArticleContentChars
       THEN Take(summary, MaxArticleContentChars) \o <<".", ".", ".">>
       ELSE summary

\* _scrape_context at time t: the context and the fetches issued
scrape_context(w, domain, t) ==
    LET found == find_blog(w)
        scraped == scrape_articles(w, found.url[1], MaxArticles)
    IN IF found.url = None
       THEN [context |-> [domain |-> domain, quality |-> "low_quality",
                          blog_url |-> None, articles |-> << >>, summary |-> << >>,
                          error_message |-> Some("No blog or content section found"),
                          scraped_at |-> t],
             fetched |-> found.fetched]
       ELSE IF scraped.articles = << >>
       THEN [context |-> [domain |-> domain, quality |-> "low_quality",
                          blog_url |-> found.url, articles |-> << >>, summary |-> << >>,
                          error_message |->
                              Some("Blog found but no articles could be extracted"),
                          scraped_at |-> t],
             fetched |-> found.fetched \o scraped.fetched]
       ELSE [context |-> [domain |-> domain,
                          quality |-> assess_quality(scraped.articles),
                          blog_url |-> found.url, articles |-> scraped.articles,
                          summary |-> build_summary(scraped.articles),
                          error_message |-> None, scraped_at |-> t],
             fetched |-> found.fetched \o scraped.fetched]

(***************************************************************************)
(* cache/sqlite_cache.py: the scraped_contexts table, one row per domain   *)
(* text (None: no row), and the processing_progress table, one row per     *)
(* file fingerprint.  The clock counts days.                               *)
(***************************************************************************)
CacheTtlDays == 7

MaxTime == 16

Times == 0..MaxTime

\* the domain texts that occur: spellings of two domains
DomainSpellings == {"acme.com", "Acme.com", "ACME.COM", "beta.io"}

\* str.lower
Lower(d) ==
    CASE d \in {"acme.com", "Acme.com", "ACME.COM"} -> "acme.com"
      [] OTHER -> d

\* datetime.isoformat
isoformat(t) == ToString(t)

\* datetime.fromisoformat
fromisoformat(s) == CHOOSE t \in Times : ToString(t) = s

\* dict.get(key, default)
Get(d, key, default) == IF key \in DOMAIN d THEN d[key] ELSE default

\* Article.to_dict
Article_to_dict(a) ==
    [title |-> a.title, url |-> a.url, content |-> a.content,
     word_count |-> a.word_count]

\* Article.from_dict
Article_from_dict(d) ==
    [title |-> Get(d, "title", << >>), url |-> Get(d, "url", << >>),
     content |-> Get(d, "content", << >>), word_count |-> Get(d, "word_count", 0)]

\* ScrapedContext.to_dict
to_dict(c) ==
    [domain |-> c.domain, quality |-> c.quality, blog_url |-> c.blog_url,
     articles |-> [i \in 1..Len(c.articles) |-> Article_to_dict(c.articles[i])],
     summary |-> c.summary, error_message |-> c.error_message,
     scraped_at |-> isoformat(c.scraped_at)]

\* ScrapedContext.from_dict
from_dict(d) ==
    LET articles == Get(d, "articles", << >>)
    IN [domain |-> d.domain, quality |-> d.quality,
        blog_url |-> Get(d, "blog_url", None),
        articles |-> [i \in 1..Len(articles) |-> Article_from_dict(articles[i])],
        summary |-> Get(d, "summary", << >>),
        error_message |-> Get(d, "error_message", None),
        scraped_at |-> fromisoformat(d.scraped_at)]

\* the table before any row is written
EmptyCache == [d \in DomainSpellings |-> None]

\* a get_context that treats a record of exactly the TTL's age as expired
cache_get_context_early(table, domain, t) ==
    LET key == Lower(domain)
    IN IF table[key] = None
       THEN [result |-> None, table |-> table]
       ELSE IF t - fromisoformat(table[key][1].scraped_at) >= CacheTtlDays
       THEN [result |-> None, table |-> [table EXCEPT ![key] = None]]
       ELSE [result |-> Some(from_dict(table[key][1].data)), table |-> table]

\* SQLiteCache.get_context at time t: the result and the table afterwards
cache_get_context(table, domain, t) ==
    LET key == Lower(domain)
    IN IF table[key] = None
       THEN [result |-> None, table |-> table]
       ELSE IF t - fromisoformat(table[key][1].scraped_at) > CacheTtlDays
       THEN [result |-> None, table |-> [table EXCEPT ![key] = None]]
       ELSE [result |-> Some(from_dict(table[key][1].data)), table |-> table]

\* a set_context that keys the row by the domain text as given
cache_set_context_verbatim(table, c) ==
    [table EXCEPT ![c.domain] =
        Some([data |-> to_dict(c), scraped_at |-> isoformat(c.scraped_at)])]

\* SQLiteCache.set_context
cache_set_context(table, c) ==
    [table EXCEPT ![Lower(c.domain)] =
        Some([data |-> to_dict(c), scraped_at |-> isoformat(c.scraped_at)])]

\* the fingerprints of the input files that occur
CsvHashes == {"f1", "f2"}

\* SQLiteCache.get_progress: None or <<(last_processed_index, total_rows)>>
get_progress(table, csv_hash) == table[csv_hash]

\* SQLiteCache.set_progress (updated_at is written and never read)
set_progress(table, csv_hash, last_index, total_rows) ==
    [table EXCEPT ![csv_hash] = Some(<<last_index, total_rows>>)]

\* a DELETE without its WHERE clause
clear_progress_all(table, csv_hash) == [h \in DOMAIN table |-> None]

\* SQLiteCache.clear_progress
clear_progress(table, csv_hash) == [table EXCEPT ![csv_hash] = None]

(***************************************************************************)
(* analyzer/context_analyzer.py: get_context                               *)
(***************************************************************************)
\* a get_context that returns the scraped context without caching it
get_context_uncached(table, w, domain, t) ==
    LET got == cache_get_context(table, domain, t)
        fresh == scrape_context(w, domain, t)
    IN IF got.result # None
       THEN [context |-> got.result[1], table |-> got.table,
             fetched |-> << >>, scraped |-> FALSE]
       ELSE [context |-> fresh.context, table |-> got.table,
             fetched |-> fresh.fetched, scraped |-> TRUE]

\* get_context at time t over the site w: the context returned, the table
\* afterwards, the fetches issued, whether a discovery sequence ran
get_context(table, w, domain, t) ==
    LET got == cache_get_context(table, domain, t)
        fresh == scrape_context(w, domain, t)
    IN IF got.result # None
       THEN [context |-> got.result[1], table |-> got.table,
             fetched |-> << >>, scraped |-> FALSE]
       ELSE [context |-> fresh.context,
             table |-> cache_set_context(got.table, fresh.context),
             fetched |-> fresh.fetched, scraped |-> TRUE]

(***************************************************************************)
(* cli.py: _run_async.  `run` holds the options and locals of one run:     *)
(* resume, csv_hash, n = len(contacts), start_index, the loop index i, and *)
(* as history the record found at the start (stored), the indices whose    *)
(* body was entered (processed), the counters and the record as the        *)
(* current body was entered (entry), the record as clear_progress was      *)
(* called (before_clear), the number of the run (runs), how the run        *)
(* before it went (prev), the table generated_emails as the run started    *)
(* (log) and the indices whose try block ran to its end (full).            *)
(***************************************************************************)
MaxContacts == 3

MaxRuns == 2

\* contacts[j] as load_contacts yields it
ContactAt(j) == [TheContact EXCEPT !.row_index = j]

\* the locals of a run as _run_async is entered
NewRun(resume, csv_hash, n, runs, prev) ==
    [resume |-> resume, csv_hash |-> csv_hash, n |-> n, start_index |-> 0,
     i |-> 0, stored |-> None, processed |-> << >>, entry |-> None,
     before_clear |-> None, runs |-> runs, prev |-> prev, log |-> << >>,
     full |-> << >>]

\* a resume point that starts at the recorded index itself
start_index_same(resume, rec) ==
    IF resume /\ rec # None THEN rec[1][1] ELSE 0

\* the resume point: 0, or one past the recorded index
start_index(resume, rec) ==
    IF resume /\ rec # None THEN rec[1][1] + 1 ELSE 0

\* an except branch that counts a failure twice
count_error_twice(rs) == [rs EXCEPT !.errors = @ + 2]

\* the except branch of the per-contact try
count_error(rs) == [rs EXCEPT !.errors = @ + 1]

\* the check for a resume point
StartRun ==
    /\ pc = "RUN"
    /\ LET rec == IF run.resume THEN get_progress(progress, run.csv_hash) ELSE None
           s == start_index(run.resume, rec)
       IN /\ run' = [run EXCEPT !.start_index = s,
                                !.stored = progress[run.csv_hash],
                                !.log = saved]
          /\ pc' = IF rec # None /\ s >= run.n THEN "ALREADY" ELSE "FOR"
    /\ UNCHANGED <<contact, context, cfg, prompt_variation, oracle, genLocals,
                   email, raised, genLog, evalLog, cache, web, fetchLog,
                   results_summary, saved, now, progress, studyVars>>

\* `for i, contact in enumerate(contacts[start_index:], start=start_index)`:
\* the next contact, or the end of the loop
ForContact ==
    /\ pc \in {"FOR", "END"}
    /\ LET j == IF pc = "FOR" THEN run.start_index ELSE run.i + 1
       IN IF j < run.n
          THEN /\ run' = [run EXCEPT
                             !.i = j,
                             !.processed = Append(@, j),
                             !.entry = Some([errors |-> results_summary.errors,
                                             record |-> progress[run.csv_hash],
                                             log |-> saved])]
               /\ contact' = ContactAt(j)
               /\ context' = << >>
               /\ attempt' = 0
               /\ cached_attempts' = << >>
               /\ previous_opener' = None
               /\ feedback' = None
               /\ opener' = ""
               /\ subject' = ""
               /\ body' = << >>
               /\ evaluation_result' = None
               /\ used_ai' = FALSE
               /\ email' = None
               /\ raised' = None
               /\ pc' = "GET_CONTEXT"
          ELSE /\ pc' = "CLEAR"
               /\ UNCHANGED <<run, contact, context, genLocals, email, raised>>
    /\ UNCHANGED <<cfg, prompt_variation, oracle, genLog, evalLog, cache, web,
                   fetchLog, results_summary, saved, now, progress, studyVars>>

\* analyzer.get_context(contact): cache first, else scrape and cache
GetContext ==
    /\ pc = "GET_CONTEXT"
    /\ LET r == get_context(cache, web, TheDomain, now)
       IN /\ context' = r.context
          /\ cache' = r.table
          /\ fetchLog' = fetchLog \o r.fetched
    /\ pc' = "START"
    /\ UNCHANGED <<contact, cfg, prompt_variation, oracle, genLocals, email,
                   raised, genLog, evalLog, web, results_summary, saved, now,
                   progress, run, studyVars>>

\* the rest of the try block after generate_email, or the except branch
\* SQLiteCache.save_email: one more row of generated_emails
save_email(log, email_address, data) ==
    Append(log, [email_address |-> email_address, data |-> data])

\* a log that takes a row for every target, also for one that failed
log_after_target_always(log, ok, email_address, data) ==
    save_email(log, email_address, data)

\* the log after the loop body: save_email is the last but one statement of
\* the try block, reached when nothing before it raised
log_after_target(log, ok, email_address, data) ==
    IF ok THEN save_email(log, email_address, data[1]) ELSE log

Complete ==
    /\ pc \in {"DONE", "RAISED"}
    /\ IF pc = "DONE"
       THEN /\ results_summary' =
                IF is_flagged(email[1])
                THEN [results_summary EXCEPT !.flagged = @ + 1]
                ELSE [results_summary EXCEPT !.success = @ + 1]
            /\ progress' = set_progress(progress, run.csv_hash, run.i, run.n)
       ELSE /\ results_summary' = count_error(results_summary)
            /\ UNCHANGED progress
    /\ saved' = log_after_target(saved, pc = "DONE", contact.email, email)
    /\ run' = [run EXCEPT !.full = IF pc = "DONE" THEN Append(@, run.i) ELSE @]
    /\ pc' = "END"
    /\ UNCHANGED <<contact, context, cfg, prompt_variation, oracle, genLocals,
                   email, raised, genLog, evalLog, cache, web, fetchLog, now,
                   studyVars>>

\* `await cache.clear_progress(csv_hash)` after the loop
ClearProgress ==
    /\ pc = "CLEAR"
    /\ run' = [run EXCEPT !.before_clear = progress[run.csv_hash]]
    /\ progress' = clear_progress(progress, run.csv_hash)
    /\ pc' = "FINISHED"
    /\ UNCHANGED <<contact, context, cfg, prompt_variation, oracle, genLocals,
                   email, raised, genLog, evalLog, cache, web, fetchLog,
                   results_summary, saved, now, studyVars>>

\* the command is run again on the same file; the database is kept
RunAgain ==
    /\ pc \in {"FINISHED", "ALREADY", "INTERRUPTED"}
    /\ run.runs < MaxRuns
    /\ \E r \in BOOLEAN :
        run' = NewRun(r, run.csv_hash, run.n, run.runs + 1,
                      Some([ended |-> pc, start_index |-> run.start_index,
                            processed |-> run.processed,
                            errors |-> results_summary.errors,
                            full |-> run.full, log |-> run.log]))
    /\ results_summary' = [success |-> 0, flagged |-> 0, errors |-> 0]
    /\ genLog' = << >>
    /\ evalLog' = << >>
    /\ fetchLog' = << >>
    /\ pc' = "RUN"
    /\ UNCHANGED <<contact, context, cfg, prompt_variation, oracle, genLocals,
                   email, raised, cache, web, saved, now, progress, studyVars>>

\* the static paths answer "links" at g, "nolinks" at e, "fail" elsewhere
PathOracles ==
    {[i \in 1..Len(BLOG_PATHS) |->
        IF i = g THEN "links" ELSE IF i = e THEN k ELSE "fail"] :
            g \in {0, 1, 3}, e \in {0, 2}, k \in {"nolinks", "lenient"}}

\* word counts of the linked articles; 0 is a failed fetch or an empty page
ArticleOracles ==
    UNION {[1..n -> {0, 50, 120}] : n \in 1..2}

Webs ==
    [home : {"fail", "nonav", "nav"},
     pick : {"none", "fail", "nolinks", "lenient", "links"},
     paths : PathOracles, hub : {"fail", "ok"}, articles : ArticleOracles]

\* a site whose only answering page is /blog, with the given articles
BlogSite(articles) ==
    [home |-> "fail", pick |-> "none",
     paths |-> [i \in 1..Len(BLOG_PATHS) |-> IF i = 1 THEN "links" ELSE "fail"],
     hub |-> "ok", articles |-> articles]

\* a context scraped earlier, at time t
EarlierContext(t) == scrape_context(BlogSite(<<120>>), TheDomain, t).context

\* the table is empty, or holds a row scraped 8 or 7 days ago
Caches ==
    {EmptyCache} \cup {cache_set_context(EmptyCache, EarlierContext(t)) : t \in {0, 1}}

\* the single-contact run of the per-contact body
OneContact == NewRun(FALSE, "f1", 1, 1, None)

NoProgress == [h \in CsvHashes |-> None]

InitPipeline ==
    /\ pc = "GET_CONTEXT"
    /\ contact = TheContact
    /\ context = << >>
    /\ cfg \in [max_retries : {0}, enable_evaluation : BOOLEAN,
                quality_threshold : Thresholds]
    /\ prompt_variation = DefaultVariation
    /\ oracle \in [gen : [1..1 -> {"A", "EXC"}],
                   eval : [1..1 -> {<<0, 5, 0>>, <<8, 2, 2>>}]]
    /\ InitLocals
    /\ cache \in Caches
    /\ web \in Webs
    /\ fetchLog = << >>
    /\ results_summary = [success |-> 0, flagged |-> 0, errors |-> 0]
    /\ saved = << >>
    /\ now = 8
    /\ progress = NoProgress
    /\ run = OneContact
    /\ NoStudy

NextPipeline ==
    \/ GetContext
    \/ Enter
    \/ Attempt
    \/ Finish
    \/ Complete

SpecPipeline == InitPipeline /\ [][NextPipeline]_vars

(***************************************************************************)
(* A whole run of the command over a file of n contacts of one company,    *)
(* and a second run on the same file.  The progress table is as earlier    *)
(* processes left it: no record for the file, or a record (k, total).      *)
(***************************************************************************)
ProgressTables ==
    {NoProgress}
    \cup {[h \in CsvHashes |-> IF h = "f1" THEN Some(<<k, t>>) ELSE Some(<<0, 1>>)] :
            k \in 0..(MaxContacts - 1), t \in {MaxContacts}}

\* sites for the run: no hub, a hub with a short article, one with a long one
RunWebs ==
    {[BlogSite(<<120>>) EXCEPT !.paths = [i \in 1..Len(BLOG_PATHS) |-> "fail"]],
     BlogSite(<<50>>), BlogSite(<<120>>)}

\* the generated_emails table when a run starts: empty, or with a row that
\* an earlier run wrote for the same address
Logs ==
    {<< >>,
     <<[email_address |-> TheContact.email,
        data |-> [to_email |-> TheContact.email, subject |-> "earlier"]]>>}

InitRun ==
    /\ pc = "RUN"
    /\ contact = TheContact
    /\ context = << >>
    /\ cfg \in [max_retries : {0}, enable_evaluation : BOOLEAN,
                quality_threshold : Thresholds]
    /\ prompt_variation = DefaultVariation
    /\ oracle \in [gen : [1..1 -> {"A", "EXC"}], eval : [1..1 -> {<<0, 5, 0>>}]]
    /\ InitLocals
    /\ cache \in Caches
    /\ web \in RunWebs
    /\ fetchLog = << >>
    /\ results_summary = [success |-> 0, flagged |-> 0, errors |-> 0]
    /\ saved \in Logs
    /\ now = 8
    /\ progress \in ProgressTables
    /\ run \in {NewRun(r, "f1", n, 1, None) : r \in BOOLEAN, n \in 1..MaxContacts}
    /\ NoStudy

NextRun ==
    \/ StartRun
    \/ ForContact
    \/ GetContext
    \/ Enter
    \/ Attempt
    \/ Finish
    \/ Complete
    \/ ClearProgress
    \/ RunAgain

SpecRun == InitRun /\ [][NextRun]_vars

\* The process is stopped inside the loop (Ctrl-C, kill): KeyboardInterrupt is
\* no Exception, so neither the except branch of the body nor clear_progress
\* runs.  After generate_email has returned, the try block goes on with
\* save_email, set_progress and to_csv, each committed on its own; steps of
\* them were executed when the process stopped.
Interrupt ==
    /\ pc \in {"FOR", "GET_CONTEXT", "START", "LOOP", "FINISH", "DONE", "RAISED",
               "END", "CLEAR"}
    /\ \E steps \in 0..3 :
        /\ pc # "DONE" => steps = 0
        /\ saved' = log_after_target(saved, pc = "DONE" /\ steps >= 1,
                                     contact.email, email)
        /\ progress' = IF pc = "DONE" /\ steps >= 2
                       THEN set_progress(progress, run.csv_hash, run.i, run.n)
                       ELSE progress
        /\ run' = [run EXCEPT !.full = IF pc = "DONE" /\ steps = 3
                                       THEN Append(@, run.i) ELSE @]
    /\ pc' = "INTERRUPTED"
    /\ UNCHANGED <<contact, context, cfg, prompt_variation, oracle, genLocals,
                   email, raised, genLog, evalLog, cache, web, fetchLog,
                   results_summary, now, studyVars>>

NextResume ==
    \/ NextRun
    \/ Interrupt

SpecResume == InitRun /\ [][NextResume]_vars

(***************************************************************************)
(* The cache alone: set_context and get_context called in any order, with  *)
(* any spelling of the domain, as days pass.  `arg` holds, per lowercased  *)
(* domain, the context last handed to set_context; `ret` is what the last  *)
(* call returned, forgotten when the clock moves.                          *)
(***************************************************************************)
\* the clock moves on by a day
Tick ==
    /\ now < MaxTime
    /\ now' = now + 1
    /\ ret' = None
    /\ UNCHANGED <<pc, contact, context, cfg, prompt_variation, oracle, genLocals,
                   email, raised, genLog, evalLog, cache, web, fetchLog,
                   results_summary, saved, progress, run, calls, arg, fetcher, tasks>>

\* contexts built at time t: one with an article, one without
PutContexts(t) ==
    {[domain |-> d, quality |-> "good", blog_url |-> Some(Url("path", 1)),
      articles |-> <<[title |-> Chars(8), url |-> Url("article", 1),
                      content |-> Words(120), word_count |-> 120]>>,
      summary |-> Chars(60), error_message |-> None, scraped_at |-> t] :
        d \in {"acme.com", "Acme.com", "beta.io"}}
    \cup
    {[domain |-> d, quality |-> "low_quality", blog_url |-> None,
      articles |-> << >>, summary |-> << >>,
      error_message |-> Some("No blog or content section found"),
      scraped_at |-> t] :
        d \in {"Acme.com"}}

\* await cache.set_context(c)
SetContext ==
    /\ pc = "IDLE"
    /\ \E c \in PutContexts(now) :
        /\ cache' = cache_set_context(cache, c)
        /\ arg' = [arg EXCEPT ![Lower(c.domain)] = Some(c)]
        /\ ret' = Some([op |-> "put", domain |-> c.domain, result |-> None,
                        row |-> cache[Lower(c.domain)]])
    /\ UNCHANGED <<pc, contact, context, cfg, prompt_variation, oracle, genLocals,
                   email, raised, genLog, evalLog, web, fetchLog,
                   results_summary, saved, now, progress, run, calls, fetcher, tasks>>

\* await cache.get_context(d)
CacheGet ==
    /\ pc = "IDLE"
    /\ \E d \in DomainSpellings :
        LET r == cache_get_context(cache, d, now)
        IN /\ cache' = r.table
           /\ ret' = Some([op |-> "get", domain |-> d, result |-> r.result,
                           row |-> cache[Lower(d)]])
    /\ UNCHANGED <<pc, contact, context, cfg, prompt_variation, oracle, genLocals,
                   email, raised, genLog, evalLog, web, fetchLog,
                   results_summary, saved, now, progress, run, calls, arg,
                   fetcher, tasks>>

\* await cache.get_progress(h)
CacheGetProgress ==
    /\ pc = "IDLE"
    /\ \E h \in CsvHashes :
        ret' = Some([op |-> "get_progress", domain |-> h,
                     result |-> get_progress(progress, h), row |-> progress[h]])
    /\ UNCHANGED <<pc, contact, context, cfg, prompt_variation, oracle, genLocals,
                   email, raised, genLog, evalLog, cache, web, fetchLog,
                   results_summary, saved, now, progress, run, calls, arg,
                   fetcher, tasks>>

\* await cache.set_progress(h, i, total)
CacheSetProgress ==
    /\ pc = "IDLE"
    /\ \E h \in CsvHashes, i \in {0, MaxContacts - 1} :
        /\ progress' = set_progress(progress, h, i, MaxContacts)
        /\ ret' = Some([op |-> "set_progress", domain |-> h, result |-> None,
                        row |-> progress[h]])
    /\ UNCHANGED <<pc, contact, context, cfg, prompt_variation, oracle, genLocals,
                   email, raised, genLog, evalLog, cache, web, fetchLog,
                   results_summary, saved, now, run, calls, arg, fetcher, tasks>>

\* await cache.clear_progress(h)
CacheClearProgress ==
    /\ pc = "IDLE"
    /\ \E h \in CsvHashes :
        /\ progress' = clear_progress(progress, h)
        /\ ret' = Some([op |-> "clear_progress", domain |-> h, result |-> None,
                        row |-> progress[h]])
    /\ UNCHANGED <<pc, contact, context, cfg, prompt_variation, oracle, genLocals,
                   email, raised, genLog, evalLog, cache, web, fetchLog,
                   results_summary, saved, now, run, calls, arg, fetcher, tasks>>

InitCache ==
    /\ pc = "IDLE"
    /\ contact = TheContact
    /\ context = << >>
    /\ cfg = [max_retries |-> 0, enable_evaluation |-> TRUE, quality_threshold |-> 70]
    /\ prompt_variation = DefaultVariation
    /\ oracle = << >>
    /\ InitLocals
    /\ cache = EmptyCache
    /\ web = << >>
    /\ fetchLog = << >>
    /\ results_summary = [success |-> 0, flagged |-> 0, errors |-> 0]
    /\ saved = << >>
    /\ now = 8
    /\ progress = NoProgress
    /\ run = << >>
    /\ calls = << >>
    /\ arg = [k \in {Lower(d) : d \in DomainSpellings} |-> None]
    /\ ret = None
    /\ NoFetcher

NextCache ==
    \/ SetContext
    \/ CacheGet
    \/ Tick

SpecCache == InitCache /\ [][NextCache]_vars

\* the database with both tables in use: contexts cached 8 or 7 days ago,
\* progress records of two files
InitTables ==
    /\ pc = "IDLE"
    /\ contact = TheContact
    /\ context = << >>
    /\ cfg = [max_retries |-> 0, enable_evaluation |-> TRUE, quality_threshold |-> 70]
    /\ prompt_variation = DefaultVariation
    /\ oracle = << >>
    /\ InitLocals
    /\ cache \in Caches
    /\ web = << >>
    /\ fetchLog = << >>
    /\ results_summary = [success |-> 0, flagged |-> 0, errors |-> 0]
    /\ saved = << >>
    /\ now = 8
    /\ progress \in ProgressTables
    /\ run = << >>
    /\ calls = << >>
    /\ arg = [k \in {Lower(d) : d \in DomainSpellings} |-> None]
    /\ ret = None
    /\ NoFetcher

NextTables ==
    \/ SetContext
    \/ CacheGet
    \/ CacheGetProgress
    \/ CacheSetProgress
    \/ CacheClearProgress

SpecTables == InitTables /\ [][NextTables]_vars

(***************************************************************************)
(* The analyzer alone: get_context called up to MaxCalls times for the     *)
(* domains of two contacts, as days pass.                                  *)
(***************************************************************************)
MaxCalls == 2

AnalyzerDomains == {"acme.com", "beta.io"}

\* a site without a hub
NoHubSite ==
    [BlogSite(<<120>>) EXCEPT !.paths = [i \in 1..Len(BLOG_PATHS) |-> "fail"]]

\* no hub; a hub that is not fetched again, or whose articles are empty; a
\* hub with articles of 50, 99, 100 or 120 words
AnalyzerWebs ==
    {NoHubSite, [BlogSite(<<120>>) EXCEPT !.hub = "fail"], BlogSite(<<0>>),
     BlogSite(<<99>>), BlogSite(<<100>>), BlogSite(<<50, 120>>)}

\* context = await analyzer.get_context(contact), for a contact of domain d
AnalyzerCall ==
    /\ pc = "IDLE"
    /\ Len(calls) < MaxCalls
    /\ \E d \in AnalyzerDomains :
        LET r == get_context(cache, web, d, now)
        IN /\ context' = r.context
           /\ cache' = r.table
           /\ fetchLog' = fetchLog \o r.fetched
           /\ calls' = Append(calls, [domain |-> d, at |-> now,
                                      context |-> r.context,
                                      fetched |-> Len(r.fetched),
                                      scraped |-> r.scraped])
    /\ UNCHANGED <<pc, contact, cfg, prompt_variation, oracle, genLocals, email,
                   raised, genLog, evalLog, web, results_summary, saved, now,
                   progress, run, arg, ret, fetcher, tasks>>

\* the site is edited between two calls
SiteChanges ==
    /\ pc = "IDLE"
    /\ Len(calls) = 1
    /\ web' \in AnalyzerWebs \ {web}
    /\ UNCHANGED <<pc, contact, context, cfg, prompt_variation, oracle, genLocals,
                   email, raised, genLog, evalLog, cache, fetchLog,
                   results_summary, saved, now, progress, run, studyVars>>

InitAnalyzer ==
    /\ pc = "IDLE"
    /\ contact = TheContact
    /\ context = << >>
    /\ cfg = [max_retries |-> 0, enable_evaluation |-> TRUE, quality_threshold |-> 70]
    /\ prompt_variation = DefaultVariation
    /\ oracle = << >>
    /\ InitLocals
    /\ cache \in Caches
    /\ web \in AnalyzerWebs
    /\ fetchLog = << >>
    /\ results_summary = [success |-> 0, flagged |-> 0, errors |-> 0]
    /\ saved = << >>
    /\ now = 8
    /\ progress = NoProgress
    /\ run = << >>
    /\ NoStudy

NextAnalyzer ==
    \/ AnalyzerCall
    \/ SiteChanges
    \/ Tick

SpecAnalyzer == InitAnalyzer /\ [][NextAnalyzer]_vars

(***************************************************************************)
(* _build_summary alone, on lists of up to three articles whose titles and *)
(* contents put the joined text on both sides of the budget.               *)
(***************************************************************************)
Letters == <<"a", "b", "c", "d", "e">>

\* a text of n one-letter words, the letters rotating from k
WordsText(k, n) ==
    [i \in 1..(IF n = 0 THEN 0 ELSE 2 * n - 1) |->
        IF i % 2 = 0 THEN " " ELSE Letters[(((i \div 2) + k) % 5) + 1]]

\* a title of n letters
TitleText(n) == [i \in 1..n |-> Letters[(i % 5) + 1]]

TitleLens == {8, 154, 155}

ContentWords == {150, 250, 300}

\* articles as parse_article returns them
ArticleKinds ==
    {[title |-> TitleText(t), url |-> Url("article", 1),
      content |-> WordsText(w, w), word_count |-> w] :
        t \in TitleLens, w \in ContentWords}

ArticleLists == UNION {[1..n -> ArticleKinds] : n \in 0..MaxArticles}

\* summary = self._build_summary(articles)
BuildSummary ==
    /\ pc = "CALL"
    /\ ret' = Some(build_summary(arg))
    /\ pc' = "RETURNED"
    /\ UNCHANGED <<contact, context, cfg, prompt_variation, oracle, genLocals,
                   email, raised, genLog, evalLog, cache, web, fetchLog,
                   results_summary, saved, now, progress, run, calls, arg,
                   fetcher, tasks>>

InitSummary ==
    /\ pc = "CALL"
    /\ contact = TheContact
    /\ context = << >>
    /\ cfg = [max_retries |-> 0, enable_evaluation |-> TRUE, quality_threshold |-> 70]
    /\ prompt_variation = DefaultVariation
    /\ oracle = << >>
    /\ InitLocals
    /\ cache = << >>
    /\ web = << >>
    /\ fetchLog = << >>
    /\ results_summary = [success |-> 0, flagged |-> 0, errors |-> 0]
    /\ saved = << >>
    /\ now = 0
    /\ progress = << >>
    /\ run = << >>
    /\ calls = << >>
    /\ arg \in ArticleLists
    /\ ret = None
    /\ NoFetcher

NextSummary == BuildSummary

SpecSummary == InitSummary /\ [][NextSummary]_vars

(***************************************************************************)
(* scraper/fetcher.py.  The clock counts seconds.  A task is a coroutine   *)
(* that calls fetch; it runs without interruption from one await to the    *)
(* next.  The awaits of fetch are: entering the rate limiter, the sleep of *)
(* _wait_for_domain, the request, the backoff sleep.  `web` gives what the *)
(* environment can do: the urls and attempt caps the callers pass, the     *)
(* seconds a caller lets pass before a call (gaps), the seconds the rate   *)
(* limiter holds a request back (limiter), the seconds a request takes     *)
(* (durations), what it meets (answers) and the number of calls made       *)
(* (fetches).  `calls` is the list of the requests issued, `ret` the list  *)
(* of the calls that ended.                                                *)
(***************************************************************************)
DomainDelay == 2

MaxAttempts == 7

\* a url: the text before "://" ("" if there is none), the text up to the
\* first "/" after it, and whether httpx can parse the whole
FetchUrls ==
    {[scheme |-> "https", host |-> "acme.com", valid |-> TRUE],
     [scheme |-> "", host |-> "Acme.com", valid |-> TRUE],
     [scheme |-> "https", host |-> "beta.io", valid |-> TRUE],
     [scheme |-> "https", host |-> "acme.com", valid |-> FALSE]}

\* _extract_domain
extract_domain(url) == Lower(url.host)

\* what self._client.get(url) can meet: a response, or an exception
Answers ==
    [kind : {"response"}, status : {200},
     content_type : {"text/html", "text/plain", "application/pdf"},
     text : {"<html>", ""}]
    \cup [kind : {"response"}, status : {403, 404, 429, 500, 503},
          content_type : {"text/html"}, text : {""}]
    \cup {[kind |-> "timeout", status |-> 0, content_type |-> "", text |-> ""],
          [kind |-> "transport", status |-> 0, content_type |-> "", text |-> ""]}

\* the classes of answers the trace of a call records
AnswerClass(b) ==
    IF b.kind # "response" THEN b.kind
    ELSE IF b.status = 200
    THEN (IF b.content_type \in {"text/html", "text/plain"} THEN "ok" ELSE "nontext")
    ELSE IF b.status = 404 THEN "notfound"
    ELSE IF b.status \in {429, 503} THEN "busy"
    ELSE "status"

\* a sleep before the request that ignores the last access
polite_sleep_none(last, t) == 0

\* _wait_for_domain, lines 54-57: the seconds to sleep before the request
polite_sleep(last, t) ==
    IF last # None /\ t - last[1] < DomainDelay
    THEN DomainDelay - (t - last[1])
    ELSE 0

\* a backoff of one second after every timeout
timeout_backoff_flat(k) == 1

\* the sleep after a timeout or a request error
timeout_backoff(k) == 2 ^ k

\* the sleep after a 429 or a 503
busy_backoff(k) == 5 * (k + 1)

\* a test that retries every status from 429 on
retryable_status_wide(status) == status >= 429

\* the statuses that are retried
retryable_status(status) == status \in {429, 503}

Return(content, error) ==
    [returns |-> TRUE, content |-> content, error |-> error, sleep |-> 0]

Sleep(seconds) ==
    [returns |-> FALSE, content |-> None, error |-> None, sleep |-> seconds]

\* the try block after the request and the except clauses, for the answer b
\* on attempt k: return a result, or sleep and go on
handle(b, k, max_retries) ==
    IF b.kind = "timeout"
    THEN (IF k = max_retries - 1
          THEN Return(None, Some("Timeout after attempts"))
          ELSE Sleep(timeout_backoff(k)))
    ELSE IF b.kind = "transport"
    THEN (IF k = max_retries - 1
          THEN Return(None, Some("Request error"))
          ELSE Sleep(timeout_backoff(k)))
    ELSE IF b.status >= 400
    THEN (IF b.status = 404
          THEN Return(None, Some("Page not found (404)"))
          ELSE IF retryable_status(b.status)
          THEN (IF k = max_retries - 1
                THEN Return(None, Some("HTTP status after attempts"))
                ELSE Sleep(busy_backoff(k)))
          ELSE Return(None, Some("HTTP error")))
    ELSE IF b.content_type # "text/html" /\ b.content_type # "text/plain"
    THEN Return(None, Some("Non-HTML content type"))
    ELSE Return(Some(b.text), None)

IdleTask ==
    [pc |-> "idle", url |-> None, domain |-> "", max_retries |-> 0, attempt |-> 0,
     wake |-> 0, read_at |-> 0, polite |-> 0, trace |-> << >>]

\* the record of a call that ended: with a result, or with an exception
Ended(t, url, n, content, error, exc, trace) ==
    [task |-> t, url |-> url, max_retries |-> n, content |-> content,
     error |-> error, raised |-> exc, trace |-> trace]

fetchOthers == <<pc, contact, context, cfg, prompt_variation, oracle, genLocals,
                 email, raised, genLog, evalLog, cache, web, fetchLog,
                 results_summary, saved, progress, run, arg>>

\* line 58 and line 84: the last access is set and the request goes out; the
\* task read the last access at read_at and slept for slept seconds
StartRequest(t, read_at, slept) ==
    /\ fetcher' = [fetcher EXCEPT !.last_domain_access[tasks[t].domain] = Some(now)]
    /\ IF ~tasks[t].url[1].valid
       THEN \* httpx.InvalidURL, which no except clause names
            /\ ret' = Append(ret, Ended(t, tasks[t].url[1], tasks[t].max_retries,
                                        None, None, Some("InvalidURL"),
                                        tasks[t].trace))
            /\ tasks' = [tasks EXCEPT ![t] = IdleTask]
            /\ UNCHANGED calls
       ELSE /\ \E d \in web.durations :
                tasks' = [tasks EXCEPT ![t].pc = "request", ![t].wake = now + d,
                                       ![t].read_at = read_at, ![t].polite = slept]
            /\ calls' = Append(calls, [task |-> t, domain |-> tasks[t].domain,
                                       attempt |-> tasks[t].attempt, at |-> now,
                                       read_at |-> read_at, polite |-> slept])
            /\ UNCHANGED ret

\* a caller calls fetch(url, max_retries): the lines up to the first await
CallFetch(t) ==
    /\ tasks[t].pc = "idle"
    /\ fetcher.started < web.fetches
    /\ fetcher' = [fetcher EXCEPT !.started = @ + 1]
    /\ \E url \in web.urls, n \in web.attempts, g \in web.gaps, w \in web.limiter :
        IF ~fetcher.client
        THEN /\ ret' = Append(ret, Ended(t, url, n, None, None,
                                         Some("RuntimeError"), << >>))
             /\ UNCHANGED tasks
        ELSE IF n <= 0
        THEN /\ ret' = Append(ret, Ended(t, url, n, None,
                                         Some("Max retries exceeded"), None,
                                         << >>))
             /\ UNCHANGED tasks
        ELSE /\ tasks' = [tasks EXCEPT ![t] =
                             [IdleTask EXCEPT !.pc = "acquire",
                                              !.url = Some(url),
                                              !.domain = extract_domain(url),
                                              !.max_retries = n,
                                              !.wake = now + g + w]]
             /\ UNCHANGED ret
    /\ UNCHANGED <<fetchOthers, now, calls>>

\* the rate limiter lets the task in: _wait_for_domain reads the last access
\* and sleeps, or sets it at once and the request goes out
WaitForDomain(t) ==
    /\ tasks[t].pc = "acquire"
    /\ now >= tasks[t].wake
    /\ LET s == polite_sleep(fetcher.last_domain_access[tasks[t].domain], now)
       IN IF s > 0
          THEN /\ tasks' = [tasks EXCEPT ![t].pc = "polite", ![t].wake = now + s,
                                         ![t].read_at = now, ![t].polite = s]
               /\ UNCHANGED <<fetcher, calls, ret>>
          ELSE StartRequest(t, now, 0)
    /\ UNCHANGED <<fetchOthers, now>>

\* the sleep of _wait_for_domain is over: line 58, then the request
WakeForDomain(t) ==
    /\ tasks[t].pc = "polite"
    /\ now >= tasks[t].wake
    /\ StartRequest(t, tasks[t].read_at, tasks[t].polite)
    /\ UNCHANGED <<fetchOthers, now>>

\* the request is over: lines 85-114 for what it met
Respond(t) ==
    /\ tasks[t].pc = "request"
    /\ now >= tasks[t].wake
    /\ \E b \in web.answers :
        LET h == handle(b, tasks[t].attempt, tasks[t].max_retries)
            entry == [k |-> tasks[t].attempt, class |-> AnswerClass(b),
                      wait |-> h.sleep]
            trace == Append(tasks[t].trace, entry)
        IN IF h.returns
           THEN /\ ret' = Append(ret, Ended(t, tasks[t].url[1], tasks[t].max_retries,
                                            h.content, h.error, None, trace))
                /\ tasks' = [tasks EXCEPT ![t] = IdleTask]
           ELSE /\ tasks' = [tasks EXCEPT ![t].pc = "backoff",
                                          ![t].wake = now + h.sleep,
                                          ![t].trace = trace]
                /\ UNCHANGED ret
    /\ UNCHANGED <<fetchOthers, now, fetcher, calls>>

\* the backoff sleep is over: the next round of the loop of line 78, or
\* line 116 when there is none
WakeBackoff(t) ==
    /\ tasks[t].pc = "backoff"
    /\ now >= tasks[t].wake
    /\ IF tasks[t].attempt + 1 < tasks[t].max_retries
       THEN /\ \E w \in web.limiter :
                tasks' = [tasks EXCEPT ![t].pc = "acquire",
                                       ![t].attempt = @ + 1,
                                       ![t].wake = now + w]
            /\ UNCHANGED ret
       ELSE /\ ret' = Append(ret, Ended(t, tasks[t].url[1], tasks[t].max_retries,
                                        None, Some("Max retries exceeded"), None,
                                        tasks[t].trace))
            /\ tasks' = [tasks EXCEPT ![t] = IdleTask]
    /\ UNCHANGED <<fetchOthers, now, fetcher, calls>>

Awaiting == {t \in DOMAIN tasks : tasks[t].pc # "idle"}

\* every task is waiting for a later moment: the clock goes on to the first one
Elapse ==
    /\ Awaiting # {}
    /\ \A t \in Awaiting : tasks[t].wake > now
    /\ now' = CHOOSE m \in {tasks[t].wake : t \in Awaiting} :
                  \A t \in Awaiting : m <= tasks[t].wake
    /\ UNCHANGED <<fetchOthers, fetcher, tasks, calls, ret>>

FetchDomains == {extract_domain(u) : u \in FetchUrls}

NewFetcher ==
    [client |-> TRUE, last_domain_access |-> [d \in FetchDomains |-> None],
     started |-> 0]

InitFetcher(env, ts) ==
    /\ pc = "FETCH"
    /\ contact = TheContact
    /\ context = << >>
    /\ cfg = [max_retries |-> 0, enable_evaluation |-> TRUE, quality_threshold |-> 70]
    /\ prompt_variation = DefaultVariation
    /\ oracle = << >>
    /\ InitLocals
    /\ cache = << >>
    /\ web = env
    /\ fetchLog = << >>
    /\ results_summary = [success |-> 0, flagged |-> 0, errors |-> 0]
    /\ saved = << >>
    /\ now = 0
    /\ progress = << >>
    /\ run = << >>
    /\ calls = << >>
    /\ arg = None
    /\ ret = << >>
    /\ fetcher = NewFetcher
    /\ tasks = [t \in ts |-> IdleTask]

NextFetch ==
    \/ \E t \in DOMAIN tasks : CallFetch(t)
    \/ \E t \in DOMAIN tasks : WaitForDomain(t)
    \/ \E t \in DOMAIN tasks : WakeForDomain(t)
    \/ \E t \in DOMAIN tasks : Respond(t)
    \/ \E t \in DOMAIN tasks : WakeBackoff(t)
    \/ Elapse

\* one call of fetch, with any cap on the attempts; the limiter and the
\* requests take no time, so the only waits are the sleeps of the code
InitFetch ==
    \E n \in 0..MaxAttempts, u \in FetchUrls :
        InitFetcher([urls |-> {u}, attempts |-> {n}, gaps |-> {0},
                     limiter |-> {0}, durations |-> {0}, answers |-> Answers,
                     fetches |-> 1],
                    {1})

SpecFetch == InitFetch /\ [][NextFetch]_vars

MaxFetches == 3

PoliteAttempts == {2}

PoliteAnswers ==
    {b \in Answers :
        \/ b.kind = "timeout"
        \/ b.status = 200 /\ b.content_type = "text/html" /\ b.text # ""}

\* one caller that makes one call after the other, to two domains, as
\* find_blog does; the caller, the limiter and the requests take time
InitPolite ==
    InitFetcher([urls |-> {u \in FetchUrls : u.valid /\ u.host # "acme.com"},
                 attempts |-> PoliteAttempts,
                 gaps |-> {0, 1}, limiter |-> {0}, durations |-> {0, 1},
                 answers |-> PoliteAnswers, fetches |-> MaxFetches],
                {1})

SpecPolite == InitPolite /\ [][NextFetch]_vars

MaxTasks == 2

\* tasks that share one Fetcher and call fetch side by side; the limiter
\* of two requests a second lets a request through at once or holds it back
InitTasks ==
    InitFetcher([urls |-> {u \in FetchUrls : u.valid /\ u.host # "acme.com"},
                 attempts |-> PoliteAttempts,
                 gaps |-> {0, 1}, limiter |-> {0, 1}, durations |-> {0, 1},
                 answers |-> PoliteAnswers, fetches |-> MaxTasks],
                1..MaxTasks)

SpecTasks == InitTasks /\ [][NextFetch]_vars

(***************************************************************************)
(* evaluator/email_evaluator.py: the whole of EmailEvaluator.evaluate.     *)
(* A finding is an item of a list: [v, is_str], is_str telling whether the *)
(* item is a string.  A JSON value is [t, items]: t is its type ("absent"  *)
(* for a key the object lacks), items the items of a list, the characters  *)
(* of a string, the keys of an object.  The answer of the model-assisted   *)
(* check is [t, fields]: t = "exc" when the request or json.loads raises,  *)
(* else the type of the parsed value, fields the three keys of an object.  *)
(***************************************************************************)
Item(v, is_str) == [v |-> v, is_str |-> is_str]

Items(n, v) == [i \in 1..n |-> Item(v, TRUE)]

\* the results of the rule-based checks of lines 154-159: the numbers of
\* AI phrases, of qualifiers and passive forms, and of the other issues
RuleCounts == {<<0, 0, 0>>, <<1, 2, 1>>, <<5, 3, 2>>, <<17, 1, 0>>}

KeyValues ==
    {[t |-> "absent", items |-> << >>],
     [t |-> "null", items |-> << >>],
     [t |-> "number", items |-> << >>],
     [t |-> "list", items |-> << >>],
     [t |-> "list", items |-> <<Item("generic phrase", TRUE)>>],
     [t |-> "list", items |-> <<Item("1", FALSE), Item("2", FALSE)>>],
     [t |-> "string", items |-> <<Item("n", TRUE), Item("o", TRUE)>>]}

AiKeys == {"ai_indicators", "style_issues", "suggestions"}

NoFields == [k \in AiKeys |-> [t |-> "absent", items |-> << >>]]

\* what the request to the model and json.loads can give
AiAnswers ==
    [t : {"object"}, fields : [AiKeys -> KeyValues], truthy : {TRUE}]
    \cup [t : {"exc", "null"}, fields : {NoFields}, truthy : {FALSE}]
    \cup [t : {"list", "string", "number"}, fields : {NoFields}, truthy : BOOLEAN]

\* the truth value of `if ai_result:`: None, {}, [], "" and 0 are false
Truthy(a) ==
    IF a.t = "object"
    THEN \E k \in AiKeys : a.fields[k].t # "absent"
    ELSE a.truthy

\* _ai_evaluate: the parsed answer, or None when anything raised
ai_evaluate(a) == IF a.t = "exc" THEN None ELSE Some(a)

\* list.extend(value): a list or a string gives its items, None and a
\* number raise TypeError
CanExtend(kv) == kv.t \in {"absent", "list", "string"}

\* ai_result.get(key, [])
dict_get(a, key) ==
    IF a.fields[key].t = "absent" THEN [t |-> "list", items |-> << >>]
    ELSE a.fields[key]

\* EmailEvaluator.evaluate on the results of the rule-based checks and the
\* answer of the model-assisted check
evaluate_email(rule, a, threshold) ==
    LET ai_indicators == Items(rule[1], "ai phrase")
        strunk_white_violations == Items(rule[2], "qualifier")
        issues == Items(rule[3], "vague")
        ai_result == ai_evaluate(a)
        used == ai_result # None /\ Truthy(a)
    IN IF used /\ a.t # "object"
       THEN [raised |-> Some("AttributeError"), result |-> None]
       ELSE IF used /\ \E k \in AiKeys : ~CanExtend(dict_get(a, k))
       THEN [raised |-> Some("TypeError"), result |-> None]
       ELSE LET ind == IF used
                       THEN ai_indicators \o dict_get(a, "ai_indicators").items
                       ELSE ai_indicators
                sty == IF used
                       THEN strunk_white_violations \o dict_get(a, "style_issues").items
                       ELSE strunk_white_violations
                sug == IF used THEN dict_get(a, "suggestions").items ELSE << >>
                ev == evaluate(<<Len(ind), Len(sty), Len(issues)>>, threshold)
            IN [raised |-> None,
                result |-> Some([is_acceptable |-> ev.is_acceptable,
                                 quality_score |-> ev.quality_score,
                                 issues |-> issues,
                                 suggestions |-> sug,
                                 ai_indicators |-> ind,
                                 strunk_white_violations |-> sty])]

EvalThresholds == {0, 70, 100}

\* a caller calls evaluate(email_body, email_subject)
Evaluate ==
    /\ pc = "EVALUATE"
    /\ pc' = "EVALUATED"
    /\ ret' = Some(evaluate_email(arg.rule, arg.ai, arg.threshold))
    /\ UNCHANGED <<contact, context, cfg, prompt_variation, oracle, genLocals,
                   email, raised, genLog, evalLog, cache, web, fetchLog,
                   results_summary, saved, now, progress, run, calls, arg,
                   fetcher, tasks>>

InitEvaluate ==
    /\ pc = "EVALUATE"
    /\ contact = TheContact
    /\ context = << >>
    /\ cfg = [max_retries |-> 0, enable_evaluation |-> TRUE, quality_threshold |-> 70]
    /\ prompt_variation = DefaultVariation
    /\ oracle = << >>
    /\ InitLocals
    /\ cache = << >>
    /\ web = << >>
    /\ fetchLog = << >>
    /\ results_summary = [success |-> 0, flagged |-> 0, errors |-> 0]
    /\ saved = << >>
    /\ now = 0
    /\ progress = << >>
    /\ run = << >>
    /\ calls = << >>
    /\ arg \in [rule : RuleCounts, ai : AiAnswers, threshold : EvalThresholds]
    /\ ret = None
    /\ NoFetcher

NextEvaluate == Evaluate

SpecEvaluate == InitEvaluate /\ [][NextEvaluate]_vars

(***************************************************************************)
(* scraper/blog_finder.py on its own: find_blog, then scrape_articles on   *)
(* the url it returned.  `ret` holds the result of find_blog, `calls` the  *)
(* result of scrape_articles, `arg` the max_articles of the caller.        *)
(***************************************************************************)
FindBlog ==
    /\ pc = "FIND"
    /\ pc' = "FOUND"
    /\ ret' = Some(find_blog(web))
    /\ fetchLog' = find_blog(web).fetched
    /\ UNCHANGED <<contact, context, cfg, prompt_variation, oracle, genLocals,
                   email, raised, genLog, evalLog, cache, web, results_summary,
                   saved, now, progress, run, calls, arg, fetcher, tasks>>

ScrapeArticles ==
    /\ pc = "FOUND"
    /\ ret[1].url # None
    /\ pc' = "SCRAPED"
    /\ LET r == scrape_articles(web, ret[1].url[1], arg)
       IN /\ calls' = <<r>>
          /\ fetchLog' = fetchLog \o r.fetched
    /\ UNCHANGED <<contact, context, cfg, prompt_variation, oracle, genLocals,
                   email, raised, genLog, evalLog, cache, web, results_summary,
                   saved, now, progress, run, arg, ret, fetcher, tasks>>

InitFinder ==
    /\ pc = "FIND"
    /\ contact = TheContact
    /\ context = << >>
    /\ cfg = [max_retries |-> 0, enable_evaluation |-> TRUE, quality_threshold |-> 70]
    /\ prompt_variation = DefaultVariation
    /\ oracle = << >>
    /\ InitLocals
    /\ cache = << >>
    /\ web \in Webs
    /\ fetchLog = << >>
    /\ results_summary = [success |-> 0, flagged |-> 0, errors |-> 0]
    /\ saved = << >>
    /\ now = 0
    /\ progress = << >>
    /\ run = << >>
    /\ calls = << >>
    /\ arg \in 1..MaxArticles
    /\ ret = None
    /\ NoFetcher

NextFinder ==
    \/ FindBlog
    \/ ScrapeArticles

SpecFinder == InitFinder /\ [][NextFinder]_vars

(***************************************************************************)
(* What the claims expect of one generate_email call, from its inputs.     *)
(***************************************************************************)
Terminal == pc \in {"DONE", "RAISED"}

\* the entry condition: quality GOOD and a summary longer than 50 characters
Usable == context.quality = "good" /\ Len(context.summary) > 50

Attempts == 1..(cfg.max_retries + 1)

\* the remote model answers attempt i with a text
GenOK(i) == oracle.gen[i] \notin {"", "EXC"}

\* the score of attempt i: max(0, 100 - 3 (2 ai + style + other))
Score(i) ==
    LET f == oracle.eval[i]
        s == 100 - 3 * (2 * f[1] + f[2] + f[3])
    IN IF s < 0 THEN 0 ELSE s

Acceptable(i) == Score(i) >= cfg.quality_threshold

\* the attempts before i all produced a text that was rejected
RejectedBefore(i) == \A j \in 1..(i - 1) : GenOK(j) /\ ~Acceptable(j)

\* first key of the ordered variant list not in used; the previous one if none
FirstUnused(used, previous) ==
    IF \E i \in 1..Len(PROMPT_VARIATIONS) : PROMPT_VARIATIONS[i] \notin used
    THEN PROMPT_VARIATIONS[CHOOSE i \in 1..Len(PROMPT_VARIATIONS) :
            /\ PROMPT_VARIATIONS[i] \notin used
            /\ \A j \in 1..(i - 1) : PROMPT_VARIATIONS[j] \in used]
    ELSE previous

\* the message returned is the static template
TemplateMessage ==
    /\ pc = "DONE"
    /\ email # None
    /\ email[1].opener = "I came across Acme"
    /\ email[1].used_ai_opener = FALSE

\* C1: generate_email ends in DONE with a message whose opener, subject and
\* body are all non-empty, for every context and every behaviour of the
\* generation and the evaluation.
C1_DoneCarriesMessage ==
    Terminal =>
        /\ pc = "DONE"
        /\ email # None
        /\ email[1].opener # ""
        /\ email[1].subject # ""
        /\ email[1].body # << >>

\* C2: with evaluation enabled the loop is ACCEPTED exactly when an attempt
\* scores >= the threshold: the message is the first acceptable attempt, with
\* used_ai_opener, an acceptable evaluation, the requested variant, and no
\* generation or evaluation call after it.
C2_AcceptedFirstAcceptable ==
    (Terminal /\ Usable /\ cfg.enable_evaluation) =>
        /\ \A k \in Attempts :
             (RejectedBefore(k) /\ GenOK(k) /\ Acceptable(k)) =>
                 /\ pc = "DONE"
                 /\ email # None
                 /\ email[1].opener = oracle.gen[k]
                 /\ email[1].used_ai_opener
                 /\ email[1].evaluation # None
                 /\ email[1].evaluation[1].is_acceptable
                 /\ email[1].evaluation[1].quality_score = Score(k)
                 /\ email[1].prompt_variation = Some(prompt_variation)
                 /\ Len(genLog) = k
                 /\ Len(evalLog) = k
        /\ (email # None /\ email[1].evaluation # None
                /\ email[1].evaluation[1].is_acceptable) =>
             \E k \in Attempts : RejectedBefore(k) /\ GenOK(k) /\ Acceptable(k)

\* C3: when all max_retries + 1 attempts are generated and none is acceptable,
\* the message is the attempt of the ledger with the highest score, the
\* earliest of them on a tie, with used_ai_opener.
C3_ExhaustedBestAttempt ==
    (Terminal /\ Usable /\ cfg.enable_evaluation
        /\ \A i \in Attempts : GenOK(i) /\ ~Acceptable(i)) =>
        \E b \in Attempts :
            /\ \A j \in Attempts : Score(j) <= Score(b)
            /\ \A j \in 1..(b - 1) : Score(j) < Score(b)
            /\ pc = "DONE"
            /\ email # None
            /\ Len(cached_attempts) = cfg.max_retries + 1
            /\ email[1].opener = oracle.gen[b]
            /\ email[1].evaluation # None
            /\ email[1].evaluation[1].quality_score = Score(b)
            /\ email[1].used_ai_opener

\* C4: one call makes at most max_retries + 1 generation calls and at most as
\* many evaluation calls, retries only after a rejected attempt with attempts
\* left, and always reaches its terminal state DONE.
C4_BoundedLoopReachesDone ==
    /\ Len(genLog) <= cfg.max_retries + 1
    /\ Len(evalLog) <= Len(genLog)
    /\ \A i \in 2..Len(genLog) :
         /\ Len(cached_attempts) >= i - 1
         /\ ~cached_attempts[i - 1].evaluation.is_acceptable
    /\ Terminal => pc = "DONE"

\* C5: on every RETRY the variant handed to the generation engine is the first
\* key of the ordered variant list that no earlier attempt of the call used;
\* attempt 2 uses a different variant from attempt 1.
C5_RetryRotatesVariant ==
    /\ \A i \in 2..Len(genLog) :
         genLog[i].variation_key =
            FirstUnused({genLog[j].variation_key : j \in 1..(i - 1)},
                        genLog[i - 1].variation_key)
    /\ (Terminal /\ Usable /\ cfg.enable_evaluation /\ cfg.max_retries >= 1
            /\ GenOK(1) /\ ~Acceptable(1)) =>
         /\ Len(genLog) >= 2
         /\ genLog[2].variation_key # genLog[1].variation_key

\* C6: the first generation call carries no previous text and no feedback,
\* the call for attempt i >= 2 carries the text and the feedback of attempt
\* i-1, and the generation engine accepts them.
C6_EngineAcceptsFeedback ==
    \A i \in 1..Len(genLog) :
        /\ genLog[i].bound
        /\ i = 1 => (genLog[i].previous_opener = None /\ genLog[i].feedback = None)
        /\ i >= 2 =>
             /\ genLog[i].previous_opener = Some(oracle.gen[i - 1])
             /\ genLog[i].feedback # None
             /\ genLog[i].feedback[1].findings = oracle.eval[i - 1]
             /\ genLog[i].feedback[1].score = Score(i - 1)

\* C7: when the generation of attempt i returns an empty text or an error
\* (i = 1, or i >= 2 after rejected attempts), the loop ends with no further
\* call and the message is the static template: used_ai_opener false, no
\* variant, no evaluation.
C7_GenerationFailureTemplate ==
    (Terminal /\ Usable) =>
        \A i \in Attempts :
            (~GenOK(i) /\ RejectedBefore(i) /\ (i = 1 \/ cfg.enable_evaluation)) =>
                /\ TemplateMessage
                /\ email[1].prompt_variation = None
                /\ email[1].evaluation = None
                /\ Len(genLog) = i
                /\ Len(evalLog) = i - 1

\* C8: no failure of the generation call or of the evaluation call leaves
\* generate_email as an exception; the call still returns a message.
C8_NoExceptionEscapes ==
    /\ pc = "RAISED" => raised[1].at \notin {"generate_opener", "evaluate"}
    /\ (Terminal /\ Len(genLog) > 0) => email # None

\* C9: the generation engine is called at least once exactly when the context
\* is GOOD with a summary longer than 50 characters; otherwise there is no
\* generation and no evaluation call and the static template is returned.
C9_EntryCondition ==
    Terminal =>
        /\ (Len(genLog) >= 1) <=> Usable
        /\ ~Usable =>
             /\ genLog = << >>
             /\ evalLog = << >>
             /\ TemplateMessage

\* the site has no discoverable hub: no verified pick and no static path
\* that yields a link
NoHub ==
    /\ ~(web.home = "nav" /\ web.pick = "links")
    /\ \A i \in 1..Len(BLOG_PATHS) : web.paths[i] # "links"

C11_SecondCallServedFromCache ==
    /\ \A j \in 1..Len(calls) :
         (\A k \in (j + 1)..Len(calls) : calls[k].domain # calls[j].domain) =>
            LET row == cache[Lower(calls[j].domain)]
            IN row # None /\ from_dict(row[1].data) = calls[j].context
    /\ \A j, k \in 1..Len(calls) :
         (/\ j < k
          /\ calls[j].domain = calls[k].domain
          /\ calls[k].at - calls[j].context.scraped_at <= CacheTtlDays) =>
            /\ calls[k].fetched = 0
            /\ calls[k].context = calls[j].context
            /\ ~(calls[j].scraped /\ calls[k].scraped)

\* a hub with articles was scraped, and days later the same domain was
\* served from the cache
C11_Witness ==
    \E j, k \in 1..Len(calls) :
        /\ j < k
        /\ calls[j].domain = calls[k].domain
        /\ calls[j].scraped
        /\ calls[j].context.articles # << >>
        /\ calls[k].at > calls[j].at
        /\ calls[k].fetched = 0
        /\ calls[k].context = calls[j].context

\* C12: a context returned by the analyzer has quality GOOD exactly when
\* one of its articles has at least min_article_words words, and
\* LOW_QUALITY otherwise, the empty article list included.
C12_QualityFromWordCounts ==
    \A j \in 1..Len(calls) :
        LET c == calls[j].context
        IN c.quality =
             IF \E i \in 1..Len(c.articles) :
                    c.articles[i].word_count >= MinArticleWords
             THEN "good" ELSE "low_quality"

\* a scraped context is GOOD by an article of exactly the minimum
C12_Witness ==
    \E j \in 1..Len(calls) :
        /\ calls[j].scraped
        /\ calls[j].context.quality = "good"
        /\ calls[j].context.articles # << >>
        /\ \A i \in 1..Len(calls[j].context.articles) :
               calls[j].context.articles[i].word_count <= MinArticleWords

Separator == <<"\n", "\n", "-", "-", "-", "\n", "\n">>

EllipsisMarker == <<".", ".", ".">>

\* the title line of an article and the first 500 characters of its content
TitlePart(a) ==
    <<"T", "i", "t", "l", "e", ":", " ">> \o a.title \o <<"\n">>
        \o SubSeq(a.content, 1, IF Len(a.content) < ContentPrefixChars
                                THEN Len(a.content) ELSE ContentPrefixChars)

\* the parts of the articles, joined by the separator
RECURSIVE JoinedText(_)
JoinedText(articles) ==
    IF articles = << >> THEN << >>
    ELSE IF Len(articles) = 1 THEN TitlePart(articles[1])
    ELSE TitlePart(articles[1]) \o Separator \o JoinedText(Tail(articles))

C14_SummaryWithinBudget ==
    pc = "RETURNED" => Len(ret[1]) <= MaxArticleContentChars

\* C15: get(D) returns the stored context exactly when a record for D exists
\* and its age does not exceed the TTL; when the age exceeds the TTL the get
\* reports absence and removes the record; while there is no record every
\* get reports absence.
C15_GetWithinTtl ==
    /\ (ret # None /\ ret[1].op = "get") =>
         LET g == ret[1]
             key == Lower(g.domain)
             fresh == /\ g.row # None
                      /\ now - fromisoformat(g.row[1].scraped_at) <= CacheTtlDays
         IN /\ g.result # None <=> fresh
            /\ fresh => g.result = arg[key]
            /\ (g.row # None /\ ~fresh) => cache[key] = None
    /\ \A d \in DomainSpellings :
         cache[Lower(d)] = None => cache_get_context(cache, d, now).result = None

\* a get found a record older than the TTL
C15_Witness ==
    /\ ret # None
    /\ ret[1].op = "get"
    /\ ret[1].row # None
    /\ ret[1].result = None
    /\ cache[Lower(ret[1].domain)] = None

\* C16: the table holds at most one record per lowercased domain; after
\* put(c) the record of c's domain is c and nothing else; a get within the
\* TTL of c, with the domain in any letter case, returns a context equal
\* to c.
C16_PutGetRoundTrip ==
    /\ \A k \in {Lower(d) : d \in DomainSpellings} :
         Cardinality({d \in DomainSpellings : Lower(d) = k /\ cache[d] # None}) <= 1
    /\ (ret # None /\ ret[1].op = "put") =>
         LET key == Lower(ret[1].domain)
         IN /\ cache[key] # None
            /\ Some(from_dict(cache[key][1].data)) = arg[key]
            /\ fromisoformat(cache[key][1].scraped_at) = arg[key][1].scraped_at
    /\ (ret # None /\ ret[1].op = "get") =>
         LET key == Lower(ret[1].domain)
         IN (arg[key] # None /\ now - arg[key][1].scraped_at <= CacheTtlDays) =>
                ret[1].result = arg[key]

\* a record was replaced by a context spelled "Acme.com", and a get for
\* "ACME.COM" returned that context
C16_Witness ==
    /\ ret # None
    /\ ret[1].op = "get"
    /\ ret[1].domain = "ACME.COM"
    /\ ret[1].result # None
    /\ ret[1].result[1].domain = "Acme.com"
    /\ ret[1].result[1].quality = "low_quality"

\* the index a run is to start at: one past the recorded index when resume
\* is enabled and a record is stored, else 0
ExpectedStart ==
    IF run.resume /\ run.stored # None THEN run.stored[1][1] + 1 ELSE 0

\* <<a, a + 1, ..., n - 1>>
Range(a, n) == [j \in 1..(IF n > a THEN n - a ELSE 0) |-> a + j - 1]

C18_SecondRunAlreadyComplete ==
    (/\ pc # "RUN"
     /\ run.runs >= 2
     /\ run.resume
     /\ run.prev[1].ended = "FINISHED"
     /\ run.prev[1].processed = Range(0, run.n)) =>
        /\ pc = "ALREADY"
        /\ run.processed = << >>
        /\ genLog = << >>

Transient == {"timeout", "transport"}

Permanent == {"notfound", "status", "nontext"}

\* the traces of the calls: those that ended and those under way
Traces ==
    {ret[i].trace : i \in DOMAIN ret} \cup {tasks[t].trace : t \in DOMAIN tasks}

\* C21: every call of fetch ends with a result of which exactly one side is
\* populated, non-empty content without an error or an error without
\* content, and with no exception.
C21_ExactlyOneSide ==
    \A i \in DOMAIN ret :
        /\ ret[i].raised = None
        /\ \/ ret[i].content # None /\ ret[i].content[1] # "" /\ ret[i].error = None
           \/ ret[i].content = None /\ ret[i].error # None

\* C22: a call fetch(url, n) with n >= 1 makes at most n requests whatever
\* the attempts meet; when every attempt ends in a timeout or a transport
\* error it makes exactly n, sleeps 2^k seconds after the failed attempt k
\* for k < n - 1, does not sleep after the last and returns an error; a
\* success returns the content and no request follows.
C22_AtMostNRequestsBackoff ==
    /\ \A t \in DOMAIN tasks :
           tasks[t].pc # "idle" => Len(calls) <= tasks[t].max_retries
    /\ \A i \in DOMAIN ret :
        LET r == ret[i]
            n == r.max_retries
        IN n >= 1 =>
            /\ Len(calls) = Len(r.trace)
            /\ Len(r.trace) <= n
            /\ \A j \in DOMAIN r.trace : r.trace[j].k = j - 1
            /\ \A j \in 1..(Len(r.trace) - 1) :
                   calls[j + 1].at >= calls[j].at + r.trace[j].wait
            /\ (r.trace # << >> /\ \A j \in DOMAIN r.trace :
                                       r.trace[j].class \in Transient)
               => /\ Len(r.trace) = n
                  /\ \A j \in 1..(n - 1) : r.trace[j].wait = 2 ^ (j - 1)
                  /\ r.trace[n].wait = 0
                  /\ r.error # None /\ r.content = None
            /\ \A j \in DOMAIN r.trace :
                   r.trace[j].class = "ok"
                   => j = Len(r.trace) /\ r.content # None /\ r.error = None

C22_Witness ==
    \E i \in DOMAIN ret :
        /\ ret[i].max_retries = 4
        /\ Len(ret[i].trace) = 4
        /\ \A j \in 1..4 : ret[i].trace[j].class \in Transient
        /\ ret[i].trace[3].wait = 4
        /\ ret[i].error # None

\* C23: an attempt that meets a permanent failure (a 404, another status
\* of 400 or more that is neither 429 nor 503, or a success whose content
\* type is neither HTML nor plain text) ends the call with an error on that
\* attempt: no sleep and no further request.
C23_PermanentFailureEndsCall ==
    /\ \A t \in DOMAIN tasks :
           \A j \in DOMAIN tasks[t].trace :
               tasks[t].trace[j].class \notin Permanent
    /\ \A i \in DOMAIN ret :
           \A j \in DOMAIN ret[i].trace :
               ret[i].trace[j].class \in Permanent
               => /\ j = Len(ret[i].trace)
                  /\ ret[i].trace[j].wait = 0
                  /\ ret[i].error # None /\ ret[i].content = None
                  /\ ret[i].raised = None
                  /\ Len(calls) = j

C23_Witness ==
    \E i \in DOMAIN ret :
        /\ ret[i].max_retries = 3
        /\ Len(ret[i].trace) = 2
        /\ ret[i].trace[1].class \in Transient
        /\ ret[i].trace[2].class = "status"
        /\ ret[i].error # None
        /\ Len(calls) = 2

\* C29: a 429 or a 503 on attempt k < n - 1 is followed by a sleep of
\* 5 * (k + 1) seconds and a retry, on the last attempt by an error without
\* a sleep; for every attempt k that sleep is longer than the 2^k seconds
\* slept after a timeout on attempt k.
C29_BusyWaitLonger ==
    /\ \A tr \in Traces :
           \A j \in DOMAIN tr :
               (tr[j].class = "busy" /\ tr[j].wait > 0)
               => /\ tr[j].wait = 5 * (tr[j].k + 1)
                  /\ tr[j].wait > 2 ^ tr[j].k
    /\ \A i \in DOMAIN ret :
           \A j \in DOMAIN ret[i].trace :
               ret[i].trace[j].class = "busy"
               => \/ /\ j - 1 < ret[i].max_retries - 1
                     /\ ret[i].trace[j].wait = 5 * j
                     /\ j < Len(ret[i].trace)
                  \/ /\ j - 1 = ret[i].max_retries - 1
                     /\ ret[i].trace[j].wait = 0
                     /\ j = Len(ret[i].trace)
                     /\ ret[i].error # None /\ ret[i].content = None

\* the last request to the domain of request j before it, 0 if there is none
LastSameDomain(j) ==
    LET before == {i \in 1..(j - 1) : calls[i].domain = calls[j].domain}
    IN IF before = {} THEN 0 ELSE CHOOSE i \in before : \A h \in before : h <= i

\* C24: with one caller that makes its calls one after the other, two
\* consecutive requests to the same domain, retries of one call or requests
\* of separate calls, start at least the politeness delay apart; the sleep
\* before a request depends on the last access to its own domain only, so a
\* request is not delayed by the last access to another domain.
C24_SameDomainSpacing ==
    \A j \in DOMAIN calls :
        LET i == LastSameDomain(j)
        IN IF i = 0
           THEN calls[j].polite = 0
           ELSE /\ calls[j].at - calls[i].at >= DomainDelay
                /\ calls[j].polite =
                       Max(0, DomainDelay - (calls[j].read_at - calls[i].at))

C24_Witness ==
    /\ Len(calls) >= 3
    /\ \E j \in DOMAIN calls :
           /\ j > 1
           /\ LastSameDomain(j) = j - 1
           /\ calls[j].task = calls[j - 1].task
           /\ calls[j].attempt = 0
           /\ calls[j].polite > 0
    /\ \E j \in DOMAIN calls :
           /\ j > 1
           /\ calls[j].domain # calls[j - 1].domain
           /\ calls[j].at - calls[j - 1].at < DomainDelay
           /\ calls[j].polite = 0
    /\ \E j \in DOMAIN calls : calls[j].attempt = 1 /\ calls[j].polite > 0

\* C30: when two or more tasks call fetch on one Fetcher for the same
\* domain, no task comes between the read of the last access, the sleep
\* and the update of another, so that their requests to the domain start
\* at least the politeness delay apart.
C30_TasksSameDomainSpacing ==
    \A i, j \in DOMAIN calls :
        (i < j /\ calls[i].domain = calls[j].domain)
        => /\ calls[j].at - calls[i].at >= DomainDelay
           /\ calls[i].task # calls[j].task => calls[j].read_at >= calls[i].at

(***************************************************************************)
(* EmailEvaluator.evaluate                                                 *)
(***************************************************************************)
Evaluated == pc = "EVALUATED"

\* C25: for every result of the model-assisted check, evaluate returns a
\* result whose quality_score is max(0, 100 - 3 * (2 * |ai_indicators| +
\* |strunk_white_violations| + |issues|)) over the lists it returns, lies
\* in 0..100, and whose is_acceptable says that the score reaches the
\* threshold.
C25_ScoreFromReturnedLists ==
    Evaluated =>
        /\ ret[1].raised = None
        /\ LET r == ret[1].result[1]
               total == 2 * Len(r.ai_indicators) + Len(r.strunk_white_violations)
                        + Len(r.issues)
           IN /\ r.quality_score = Max(0, 100 - 3 * total)
              /\ r.quality_score \in 0..100
              /\ r.is_acceptable <=> (r.quality_score >= arg.threshold)

\* the answer is an object whose three keys hold lists of strings
WellFormed(a) ==
    /\ a.t = "object"
    /\ \A k \in AiKeys :
           /\ a.fields[k].t = "list"
           /\ \A i \in DOMAIN a.fields[k].items : a.fields[k].items[i].is_str

\* C26: when the model-assisted check fails, returns nothing or returns a
\* malformed answer (no JSON, no object, keys missing or not lists of
\* strings), evaluate raises nothing and returns the result of the
\* rule-based checks alone, with no finding added.
C26_MalformedAnswerIgnored ==
    (Evaluated /\ ~WellFormed(arg.ai)) =>
        /\ ret[1].raised = None
        /\ LET r == ret[1].result[1]
           IN /\ Len(r.ai_indicators) = arg.rule[1]
              /\ Len(r.strunk_white_violations) = arg.rule[2]
              /\ Len(r.issues) = arg.rule[3]
              /\ r.suggestions = << >>
              /\ r.quality_score = quality_score(arg.rule)

(***************************************************************************)
(* the message log of a run                                                *)
(***************************************************************************)
IsPrefix(s, t) == Len(s) <= Len(t) /\ \A i \in DOMAIN s : t[i] = s[i]

C28_LedgerOneEntryPerEvaluation ==
    /\ Len(cached_attempts) = Len(evalLog)
    /\ \A i \in DOMAIN cached_attempts : cached_attempts[i].attempt_number = i
    /\ (Terminal /\ Usable /\ cfg.enable_evaluation) =>
         \A k \in Attempts :
             (RejectedBefore(k) /\ GenOK(k)) =>
                 /\ Len(evalLog) >= k
                 /\ Len(cached_attempts) >= k

(***************************************************************************)
(* find_blog and scrape_articles                                           *)
(***************************************************************************)
Found == pc \in {"FOUND", "SCRAPED"}

\* the first static path whose page is fetched and yields a link, 0 if none
FirstGoodPath ==
    LET good == {i \in DOMAIN web.paths : web.paths[i] = "links"}
    IN IF good = {} THEN 0 ELSE CHOOSE i \in good : \A j \in good : i <= j

PathFetches(n) == [i \in 1..n |-> Fetch(Url("path", i), "find_blog")]

\* the fetches of the static paths made by the call, in order
PathsTried ==
    SelectSeq(ret[1].fetched, LAMBDA f : f.url.kind = "path")

\* C31: when the homepage cannot be fetched or has no navigation links,
\* find_blog fetches the static paths in the order of the list and returns
\* the first whose fetch succeeds and whose page yields an article link:
\* no later path is fetched, and no earlier path met both conditions.
C31_FirstStaticPath ==
    (Found /\ web.home \in {"fail", "nonav"}) =>
        LET g == FirstGoodPath
        IN /\ ret[1].fetched =
                  <<Fetch(Url("home", 0), "find_blog")>>
                      \o PathFetches(IF g = 0 THEN Len(BLOG_PATHS) ELSE g)
           /\ ret[1].url = IF g = 0 THEN None ELSE Some(Url("path", g))
           /\ \A i \in 1..(g - 1) : web.paths[i] # "links"

C31_Witness ==
    /\ Found
    /\ web.home = "fail"
    /\ web.paths[2] \in {"nolinks", "lenient"}
    /\ ret[1].url = Some(Url("path", 3))
    /\ Len(ret[1].fetched) = 4

\* the page behind a url of the site, as the call that fetched it saw it
PageKind(u) ==
    IF u.kind = "pick" THEN web.pick
    ELSE IF u.kind = "path" THEN web.paths[u.n]
    ELSE web.home

\* C32: a url returned by find_blog was fetched with success during the
\* call and its page yielded an article link; when the ranking step picks
\* nothing, or the picked page cannot be fetched or yields no link, the
\* static paths are tried; None is returned only after every static path
\* was tried and rejected.
C32_ReturnedUrlVerified ==
    Found =>
        /\ ret[1].url # None =>
             /\ \E i \in DOMAIN ret[1].fetched : ret[1].fetched[i].url = ret[1].url[1]
             /\ PageKind(ret[1].url[1]) \in {"links", "lenient"}
        /\ (web.home = "nav" /\ web.pick \in {"none", "fail", "nolinks"}) =>
             /\ PathsTried # << >>
             /\ PathsTried = PathFetches(Len(PathsTried))
             /\ web.pick # "none" =>
                    ret[1].fetched[2] = Fetch(Url("pick", 0), "find_blog")
        /\ ret[1].url = None =>
             /\ PathsTried = PathFetches(Len(BLOG_PATHS))
             /\ \A i \in DOMAIN web.paths : web.paths[i] # "links"

C32_Witness ==
    /\ Found
    /\ web.home = "nav"
    /\ web.pick = "nolinks"
    /\ ret[1].url = Some(Url("path", 3))
    /\ Len(PathsTried) = 3

\* the links of the hub page that scrape_articles follows
LinksFollowed == IF Len(web.articles) < arg THEN Len(web.articles) ELSE arg

\* C33: scrape_articles(hub, m) fetches the hub page once and at most m
\* articles, returns at most m articles in the order of the links, each
\* with word_count > 0; an article whose fetch fails or whose page gives
\* nothing is left out and the remaining ones are still fetched; when the
\* hub page cannot be fetched the result is empty and no article is fetched.
C33_ScrapeArticlesBounded ==
    pc = "SCRAPED" =>
        LET r == calls[1]
            hub == Fetch(ret[1].url[1], "scrape_articles")
            n == LinksFollowed
        IN /\ r.fetched[1] = hub
           /\ \A i \in 2..Len(r.fetched) : r.fetched[i] # hub
           /\ IF web.hub = "fail"
              THEN r.articles = << >> /\ Len(r.fetched) = 1
              ELSE /\ Len(r.fetched) = 1 + n
                   /\ n <= arg
                   /\ \A k \in 1..n :
                          r.fetched[k + 1] = Fetch(Url("article", k), "scrape_articles")
                   /\ Len(r.articles) <= arg
                   /\ Len(r.articles) = Cardinality({k \in 1..n : web.articles[k] > 0})
                   /\ \A i \in DOMAIN r.articles :
                          /\ r.articles[i].word_count > 0
                          /\ r.articles[i].url.n \in 1..n
                          /\ web.articles[r.articles[i].url.n] = r.articles[i].word_count
                   /\ \A i, j \in DOMAIN r.articles :
                          i < j => r.articles[i].url.n < r.articles[j].url.n

C33_Witness ==
    /\ pc = "SCRAPED"
    /\ web.hub = "ok"
    /\ web.articles = <<0, 120>>
    /\ arg = 2
    /\ Len(calls[1].fetched) = 3
    /\ Len(calls[1].articles) = 1
    /\ calls[1].articles[1].url = Url("article", 2)

(***************************************************************************)
(* the tables of the cache                                                 *)
(***************************************************************************)
ProgressOps == {"get_progress", "set_progress", "clear_progress"}

\* C34: the progress operations and the context operations do not touch
\* each other's records: get_progress, set_progress and clear_progress
\* leave every cached context as it is; put and get of a context, the
\* delete of an expired record included, leave every progress record as it
\* is; an operation on one fingerprint leaves the records of the other
\* fingerprints as they are, and get_progress changes nothing.
C34_ProgressAndContextsApart ==
    [][ret' # None =>
         LET o == ret'[1]
         IN /\ o.op \in ProgressOps =>
                 /\ cache' = cache
                 /\ \A h \in CsvHashes \ {o.domain} : progress'[h] = progress[h]
            /\ o.op = "get_progress" => progress' = progress
            /\ o.op \in {"get", "put"} =>
                 /\ progress' = progress
                 /\ \A d \in DOMAIN cache :
                        d # Lower(o.domain) => cache'[d] = cache[d]]_vars

\* the record of one file was cleared while the other file has a record
\* and a context is cached
C34_Witness ==
    /\ ret # None
    /\ ret[1].op = "clear_progress"
    /\ ret[1].row # None
    /\ progress[ret[1].domain] = None
    /\ \E h \in CsvHashes : progress[h] # None
    /\ \E d \in DOMAIN cache : cache[d] # None

\* ---------------------------------------------------------------------------
\* dry_run/parallel_tester.py: ParallelTester.test_all_variations
\*
\* One branch per key of PROMPT_VARIATIONS is handed to a pool of max_workers
\* threads; asyncio.gather resumes the caller when every branch has a result
\* and lists the results in the order of the branches.  calls holds the
\* branches, oracle what the remote model answers to each of them.
\* ---------------------------------------------------------------------------

max_workers == 10

generate_single(variation_key, ctx, response) ==
    LET g == generate_opener(ctx, variation_key, response) IN
        [variation_key |-> variation_key, opener |-> g.opener, error |-> g.error,
         success |-> (g.opener # "" /\ g.error = None)]

gather_successful(branches) ==
    LET all == [k \in DOMAIN branches |-> branches[k].result[1]]
        ok(r) == r.success
    IN  SelectSeq(all, ok)

gather(branches) == [k \in DOMAIN branches |-> branches[k].result[1]]

trialFrame ==
    <<contact, context, cfg, prompt_variation, oracle, genLocals, email, raised,
      genLog, evalLog, cache, web, fetchLog, results_summary, saved, now,
      progress, run, arg, fetcher, tasks>>

TestAllVariations ==
    /\ pc = "TRIAL"
    /\ pc' = "GATHER"
    /\ calls' = [k \in DOMAIN PROMPT_VARIATIONS |->
                    [variation_key |-> PROMPT_VARIATIONS[k], pc |-> "queued",
                     result |-> None]]
    /\ UNCHANGED <<trialFrame, ret>>

RunBranch(k) ==
    /\ pc = "GATHER"
    /\ calls[k].pc = "queued"
    /\ Cardinality({j \in DOMAIN calls : calls[j].pc = "running"}) < max_workers
    /\ calls' = [calls EXCEPT ![k].pc = "running"]
    /\ UNCHANGED <<trialFrame, pc, ret>>

FinishBranch(k) ==
    /\ pc = "GATHER"
    /\ calls[k].pc = "running"
    /\ calls' = [calls EXCEPT
                    ![k].pc = "done",
                    ![k].result = Some(generate_single(calls[k].variation_key,
                                                       context, oracle[k]))]
    /\ UNCHANGED <<trialFrame, pc, ret>>

Gather ==
    /\ pc = "GATHER"
    /\ \A k \in DOMAIN calls : calls[k].pc = "done"
    /\ pc' = "RETURNED"
    /\ ret' = Some(gather(calls))
    /\ UNCHANGED <<trialFrame, calls>>

TrialScripts ==
    {[k \in DOMAIN PROMPT_VARIATIONS |-> "A"],
     [k \in DOMAIN PROMPT_VARIATIONS |->
        IF k = 3 THEN "EXC" ELSE IF k = 7 THEN "" ELSE "B"],
     [k \in DOMAIN PROMPT_VARIATIONS |-> "EXC"]}

TrialContexts ==
    {c \in Contexts :
        /\ c.quality \in {"good", "low_quality"}
        /\ Len(c.summary) = MinUsableSummary + 1}

InitTrial ==
    /\ pc = "TRIAL"
    /\ contact = TheContact
    /\ context \in TrialContexts
    /\ cfg = [max_retries |-> 0, enable_evaluation |-> TRUE, quality_threshold |-> 70]
    /\ prompt_variation = DefaultVariation
    /\ oracle \in TrialScripts
    /\ InitLocals
    /\ cache = << >>
    /\ web = << >>
    /\ fetchLog = << >>
    /\ results_summary = [success |-> 0, flagged |-> 0, errors |-> 0]
    /\ saved = << >>
    /\ now = 0
    /\ progress = << >>
    /\ run = << >>
    /\ calls = << >>
    /\ arg = << >>
    /\ ret = None
    /\ NoFetcher

NextTrial ==
    \/ TestAllVariations
    \/ \E k \in DOMAIN calls : RunBranch(k)
    \/ \E k \in DOMAIN calls : FinishBranch(k)
    \/ Gather

SpecTrial == InitTrial /\ [][NextTrial]_vars

\* C35: the parallel variant trial starts one branch per prompt variant, returns
\* only when every branch has finished, and returns one result per variant in
\* the order of the variant list; a branch whose generation fails gives a
\* result flagged unsuccessful for its variant, and every other branch's result
\* is what its own answer makes it.
C35_OneResultPerVariantInOrder ==
    /\ pc \in {"GATHER", "RETURNED"} =>
          /\ Len(calls) = Len(PROMPT_VARIATIONS)
          /\ \A k \in DOMAIN calls : calls[k].variation_key = PROMPT_VARIATIONS[k]
    /\ pc = "RETURNED" =>
          /\ \A k \in DOMAIN calls : calls[k].pc = "done"
          /\ Len(ret[1]) = Len(PROMPT_VARIATIONS)
          /\ \A k \in DOMAIN ret[1] :
                LET r == ret[1][k]
                    good == has_usable_content(context) /\ oracle[k] \notin {"", "EXC"}
                IN  /\ r.variation_key = PROMPT_VARIATIONS[k]
                    /\ r.success <=> good
                    /\ r.opener = IF good THEN oracle[k] ELSE ""

C35_Witness ==
    /\ pc = "RETURNED"
    /\ \E j, k \in DOMAIN ret[1] :
          /\ j < k
          /\ ~ret[1][j].success
          /\ ret[1][j].error # None
          /\ ret[1][k].success

\* the indices listed in a sequence
Indices(s) == {s[j] : j \in DOMAIN s}

\* a run with resume enabled that follows an interrupted run of the same file
ResumedAfterInterrupt ==
    /\ run.prev # None
    /\ run.prev[1].ended = "INTERRUPTED"
    /\ run.resume
    /\ pc # "RUN"

C39_NoEvaluationSingleAttempt ==
    (Terminal /\ Usable /\ ~cfg.enable_evaluation) =>
        /\ Len(genLog) = 1
        /\ evalLog = << >>
        /\ GenOK(1) =>
             /\ pc = "DONE"
             /\ email # None
             /\ email[1].used_ai_opener
             /\ email[1].opener = oracle.gen[1]
             /\ email[1].evaluation = None
        /\ ~GenOK(1) =>
             /\ TemplateMessage
             /\ email[1].evaluation = None

====
